---------------------------- MODULE Spec2Model ----------------------------
(***************************************************************************)
(* A model of tcell's two screen backends: the terminfo screen             *)
(* (src/tscreen.go, type tScreen) and the Windows console screen           *)
(* (src/console_win.go, type cScreen).  The state is the screen object's   *)
(* fields, the Go channels it owns, the goroutines' program positions and  *)
(* the terminal's window size.  Every public method is one action, or one  *)
(* action per critical section when it takes the mutex or can block.       *)
(***************************************************************************)
EXTENDS Integers, Sequences, FiniteSets, TLC

VARIABLES
    backend,    \* "terminfo" (tScreen) or "console" (cScreen)
    life,       \* the application's view: "new", "running", "finished"
    mu,         \* sync.Mutex: "" when free, else the goroutine holding it
    pc,         \* program position of every goroutine
    pend,       \* per goroutine: the event a blocking PostEvent is offering
    rep,        \* console input goroutine: krec.repeat still to post
    fini,       \* tScreen.fini
    w, h,       \* t.w, t.h / s.w, s.h
    cells,      \* t.cells / s.cells; <<>> is the nil slice
    style,      \* t.style / s.style
    cursorx, cursory,   \* t.cursorx, t.cursory / s.curx, s.cury
    clear,      \* t.clear / s.clear
    curstyle,   \* t.curstyle
    cx, cy,     \* t.cx, t.cy
    wasbtn,     \* t.wasbtn
    charset,    \* t.charset
    evch,       \* the event channel's buffer; evcap is its capacity
    order,      \* who posted the events of evch, and what PollEvent gave
    evcap,      \* 0 while the channel is nil
    quit,       \* "nil", "open", "closed"
    indoneq,    \* "nil", "open", "closed"
    sigwinch,   \* TRUE when the 1-slot signal channel holds a SIGWINCH
    ttyOpen,    \* the terminal handles (t.in/t.out, s.in/s.out) are open
    winsize,    \* the terminal's real window size <<w, h>>
    nread,      \* input reads that carried data so far
    nwinch,     \* window size changes so far
    npost,      \* application PostEvent calls so far
    last,       \* the application's latest call and what it did
    ti,         \* t.ti and t.keys: the key table and whether there is a mouse
    acs,        \* t.acs: what is written for a rune the charset lacks
    inbuf,      \* inputLoop's buf: the bytes read and not yet decoded
    scanned,    \* the input goroutine's latest scanInput and what it did
    fault       \* "none", or the Go run-time panic that ended the program

vars == << backend, life, mu, pc, pend, rep, fini, w, h, cells, style,
           cursorx, cursory, clear, curstyle, cx, cy, wasbtn, charset, evch,
           order, evcap, quit, indoneq, sigwinch, ttyOpen, winsize, nread, nwinch,
           npost, last, ti, acs, inbuf, scanned, fault >>

-----------------------------------------------------------------------------
(* Bounds of the exploration.                                              *)

MaxReads == 1
MaxWinch == 1
MaxPost == 1
MaxRepeat == 2

\* Window sizes the terminal can take; the first is also the size the
\* terminfo entry declares (ti.Columns, ti.Lines).
WinSizes == { <<2, 1>>, <<1, 2>> }
TiSize == <<2, 1>>

\* Coordinates the application passes: the cells of either window size, and
\* one step outside on each side.
CellAt == { << 0, 0 >>, << 1, 0 >>, << 0, 1 >>,
            << -1, 0 >>, << 0, -1 >>, << 2, 0 >>, << 0, 2 >> }

-----------------------------------------------------------------------------
(* Program constants.                                                      *)

EvchCapT == 10
EvchCapC == 2

StyleDefault == 0
StyleInvalid == -1
ColorDefault == 0
ColorRed == 2

AttrBold == 1
AttrBlink == 2
AttrReverse == 4
AttrUnderline == 8
AttrDim == 16

RuneSpace == 32

ButtonNone == 0
Button1 == 1
Button2 == 2
Button3 == 4
WheelUp == 256
WheelDown == 512
ModNone == 0
ModShift == 1
ModCtrl == 2
ModMeta == 8
ModAlt == 4

KeyRune == 256
KeyUp == 257
KeyLeft == 260
KeyBackspace == 270
KeyF1 == 279

Min(a, b) == IF a < b THEN a ELSE b
HasBit(v, bit) == (v \div bit) % 2 = 1

-----------------------------------------------------------------------------
(* Style: a packed (fg, bg, attrs) triple.                                 *)

NewStyle(fg, bg, attrs) == fg + 32 * bg + 1024 * attrs
Decompose(s) == << s % 32, (s \div 32) % 32, s \div 1024 >>

StyleRed == NewStyle(ColorRed, ColorDefault, 0)
Styles == { StyleDefault, StyleRed }

-----------------------------------------------------------------------------
(* Cell and the helpers over a slice of cells.                             *)

\* Column width of a rune: 0 for controls, 2 for East-Asian wide (here the
\* CJK block U+2E80..U+A4CF), else 1.
RuneWidth(r) ==
    IF r < 32 THEN 0 ELSE IF r >= 11904 /\ r <= 42191 THEN 2 ELSE 1

CellWidth(ch) == IF Len(ch) = 0 THEN 1 ELSE RuneWidth(ch[1])

\* A cell as ResizeCells creates it.
NewCell == [ ch |-> << RuneSpace >>, style |-> StyleDefault,
             width |-> 1, dirty |-> TRUE ]

PutChars(c, ch) ==
    IF c.ch = ch THEN c
    ELSE [ c EXCEPT !.ch = ch, !.width = CellWidth(ch), !.dirty = TRUE ]

PutStyle(c, st) ==
    IF c.style = st THEN c
    ELSE [ c EXCEPT !.style = st, !.dirty = TRUE ]

CellSetCell(c, ch, st) == PutStyle(PutChars(c, ch), st)

ClearCells(cs, st) ==
    [ i \in 1 .. Len(cs) |-> CellSetCell(cs[i], << RuneSpace >>, st) ]

InvalidateCells(cs) ==
    [ i \in 1 .. Len(cs) |-> [ cs[i] EXCEPT !.dirty = TRUE ] ]

\* ResizeCells reads oldc[row*ow+col] for every cell of the intersection.
ResizeCellsFaults(oldc, ow, oh, nw, nh) ==
    Min(ow, nw) > 0 /\ Min(oh, nh) > 0
    /\ (Min(oh, nh) - 1) * ow + Min(ow, nw) > Len(oldc)

ResizeCells(oldc, ow, oh, nw, nh) ==
    [ i \in 1 .. nw * nh |->
        LET col == (i - 1) % nw
            row == (i - 1) \div nw
        IN  IF col < ow /\ row < oh /\ row * ow + col + 1 <= Len(oldc)
            THEN oldc[row * ow + col + 1]
            ELSE NewCell ]

-----------------------------------------------------------------------------
(* Output.  What a method writes to the terminal is a sequence of tokens:  *)
(* one per terminfo capability sent through TPuts, one per string written, *)
(* one per console API call that changes what the console shows.           *)

Tok(op, a, b, s) == [ op |-> op, a |-> a, b |-> b, s |-> s ]
Cap(op) == Tok(op, 0, 0, << >>)

\* The cells a Show or Sync drew: the strings it wrote.
Drawn(out) == { i \in 1 .. Len(out) : out[i].op = "text" }

-----------------------------------------------------------------------------
(* tScreen.drawCell, tScreen.showCursor, tScreen.draw.                     *)

\* The attribute capabilities drawCell sends for a style, in its order.
AttrToks(st) ==
    LET fg == Decompose(st)[1]
        bg == Decompose(st)[2]
        at == Decompose(st)[3]
    IN  << Cap("attroff") >>
        \o (IF HasBit(at, AttrBold) THEN << Cap("bold") >> ELSE << >>)
        \o (IF HasBit(at, AttrUnderline) THEN << Cap("underline") >> ELSE << >>)
        \o (IF HasBit(at, AttrReverse) THEN << Cap("reverse") >> ELSE << >>)
        \o (IF HasBit(at, AttrBlink) THEN << Cap("blink") >> ELSE << >>)
        \o (IF HasBit(at, AttrDim) THEN << Cap("dim") >> ELSE << >>)
        \o (IF fg # ColorDefault THEN << Tok("setfg", fg - 1, 0, << >>) >>
            ELSE << >>)
        \o (IF bg # ColorDefault THEN << Tok("setbg", bg - 1, 0, << >>) >>
            ELSE << >>)

\* encodeRune with no encoder (US-ASCII): the bytes appended to buf.
RECURSIVE EncodeRunes(_, _)
EncodeRunes(ch, buf) ==
    IF Len(ch) = 0 THEN buf
    ELSE LET r == Head(ch)
             nb == IF r < 128 THEN Append(buf, r)
                   ELSE IF Len(buf) = 0 THEN Append(buf, 63)
                   ELSE buf
         IN  EncodeRunes(Tail(ch), nb)

\* The string drawCell writes and the columns it takes: << str, width >>.
CellString(cell, x, tw, cset) ==
    LET first ==
          IF Len(cell.ch) = 0 THEN << << RuneSpace >>, 1 >>
          ELSE IF cset = "UTF-8" THEN << cell.ch, cell.width >>
          ELSE LET buf == EncodeRunes(cell.ch, << >>)
                   str == IF Len(buf) = 0 THEN << RuneSpace >> ELSE buf
               IN  IF cell.width > 1 /\ str = << 63 >>
                   THEN IF x < tw - 1 THEN << << 63, RuneSpace >>, 2 >>
                        ELSE << << 63 >>, 1 >>
                   ELSE << str, cell.width >>
    IN  IF first[2] = 2 /\ x >= tw - 1 THEN << << RuneSpace >>, 1 >>
        ELSE first

\* drawCell forgetting the style it has set.
drawCellStyleStale(x, y, cell, d, tw, tstyle, cset) ==
    LET goto == IF d.cy # y \/ d.cx # x
                THEN << Tok("goto", x, y, << >>) >> ELSE << >>
        st == IF cell.style = StyleDefault THEN tstyle ELSE cell.style
        attrs == IF st # d.curstyle THEN AttrToks(st) ELSE << >>
        sw == CellString(cell, x, tw, cset)
    IN  [ d EXCEPT !.out = d.out \o goto \o attrs
                             \o << Tok("text", x, y, sw[1]) >>,
                   !.cy = y,
                   !.cx = x + sw[2] ]

\* drawCell moving the cursor only when the row is another.
drawCellGotoOnRow(x, y, cell, d, tw, tstyle, cset) ==
    LET goto == IF d.cy # y
                THEN << Tok("goto", x, y, << >>) >> ELSE << >>
        st == IF cell.style = StyleDefault THEN tstyle ELSE cell.style
        attrs == IF st # d.curstyle THEN AttrToks(st) ELSE << >>
        sw == CellString(cell, x, tw, cset)
    IN  [ d EXCEPT !.out = d.out \o goto \o attrs
                             \o << Tok("text", x, y, sw[1]) >>,
                   !.curstyle = st,
                   !.cy = y,
                   !.cx = x + sw[2] ]

\* d is the drawing state [cells, cx, cy, curstyle, out, fault].
drawCell(x, y, cell, d, tw, tstyle, cset) ==
    LET goto == IF d.cy # y \/ d.cx # x
                THEN << Tok("goto", x, y, << >>) >> ELSE << >>
        st == IF cell.style = StyleDefault THEN tstyle ELSE cell.style
        attrs == IF st # d.curstyle THEN AttrToks(st) ELSE << >>
        sw == CellString(cell, x, tw, cset)
    IN  [ d EXCEPT !.out = d.out \o goto \o attrs
                             \o << Tok("text", x, y, sw[1]) >>,
                   !.curstyle = st,
                   !.cy = y,
                   !.cx = x + sw[2] ]

RECURSIVE TDrawLoop(_, _, _, _, _, _, _)
TDrawLoop(row, col, d, tw, th, tstyle, cset) ==
    IF row >= th THEN d
    ELSE IF col >= tw THEN TDrawLoop(row + 1, 0, d, tw, th, tstyle, cset)
    ELSE IF row * tw + col + 1 > Len(d.cells)
         THEN [ d EXCEPT !.fault = TRUE ]
    ELSE LET i == row * tw + col + 1
             cell == d.cells[i]
         IN  IF ~cell.dirty
             THEN TDrawLoop(row, col + 1, d, tw, th, tstyle, cset)
             ELSE LET d1 == drawCell(col, row, cell, d, tw, tstyle, cset)
                      d2 == [ d1 EXCEPT !.cells[i].dirty = FALSE ]
                      nc == IF cell.width > 1 THEN col + 2 ELSE col + 1
                  IN  TDrawLoop(row, nc, d2, tw, th, tstyle, cset)

showCursor(d, x, y, tw, th) ==
    IF x < 0 \/ y < 0 \/ x >= tw \/ y >= th
    THEN [ d EXCEPT !.out = d.out \o << Cap("hidecursor") >> ]
    ELSE [ d EXCEPT !.out = d.out
                        \o (IF d.cx # x \/ d.cy # y
                            THEN << Tok("goto", x, y, << >>) >> ELSE << >>)
                        \o << Cap("showcursor") >>,
                    !.cx = x, !.cy = y ]

\* tScreen.draw on the screen fields given; the result also carries the
\* clear flag as draw leaves it.
TDraw(cs, tw, th, tstyle, tclear, tcur, curx, cury, cset, out0) ==
    LET d0 == [ cells |-> cs, cx |-> -1, cy |-> -1, curstyle |-> tcur,
                out |-> out0 \o << Cap("hidecursor") >>
                        \o (IF tclear THEN << Cap("clear") >> ELSE << >>),
                fault |-> FALSE ]
        d1 == TDrawLoop(0, 0, d0, tw, th, tstyle, cset)
    IN  IF d1.fault THEN d1 ELSE showCursor(d1, curx, cury, tw, th)

-----------------------------------------------------------------------------
(* cScreen.writeString, cScreen.draw, cScreen.doCursor.                    *)

\* d is the drawing state [cells, wcs, style, x, y, out, fault].
writeString(d) ==
    IF Len(d.wcs) = 0 THEN d
    ELSE [ d EXCEPT !.out = d.out
                        \o << Tok("textattr", d.style, 0, << >>),
                              Tok("cursorpos", d.x, d.y, << >>),
                              Tok("text", d.x, d.y, d.wcs) >> ]

Flush(d) == [ writeString(d) EXCEPT !.wcs = << >>, !.style = StyleInvalid ]

RECURSIVE CDrawLoop(_, _, _, _, _)
CDrawLoop(row, col, d, sw, sh) ==
    IF row >= sh THEN d
    ELSE IF col >= sw THEN CDrawLoop(row + 1, 0, Flush(d), sw, sh)
    ELSE IF row * sw + col + 1 > Len(d.cells)
         THEN [ d EXCEPT !.fault = TRUE ]
    ELSE LET i == row * sw + col + 1
             cell == d.cells[i]
             width == IF cell.width < 1 THEN 1 ELSE cell.width
             d1 == IF ~cell.dirty \/ d.style # cell.style THEN Flush(d) ELSE d
         IN  IF ~cell.dirty THEN CDrawLoop(row, col + width, d1, sw, sh)
             ELSE LET d2 == IF Len(d1.wcs) = 0
                            THEN [ d1 EXCEPT !.style = cell.style,
                                             !.x = col, !.y = row ]
                            ELSE d1
                      d3 == [ d2 EXCEPT
                                !.wcs = d2.wcs \o (IF Len(cell.ch) < 1
                                                   THEN << RuneSpace >>
                                                   ELSE cell.ch),
                                !.cells[i].dirty = FALSE ]
                  IN  CDrawLoop(row, col + width, d3, sw, sh)

\* cScreen.draw on the screen fields given, after the output out0.
CDraw(cs, sw, sh, sstyle, sclear, out0) ==
    LET d0 == [ cells |-> cs, wcs |-> << >>, style |-> StyleInvalid,
                x |-> -1, y |-> -1,
                out |-> out0 \o (IF sclear
                                 THEN << Tok("fill", sstyle, sw * sh, << >>) >>
                                 ELSE << >>),
                fault |-> FALSE ]
    IN  CDrawLoop(0, 0, d0, sw, sh)

doCursor(x, y, sw, sh) ==
    IF x < 0 \/ y < 0 \/ x >= sw \/ y >= sh
    THEN << Tok("cursorpos", 0, 0, << >>), Cap("hidecursor") >>
    ELSE << Tok("cursorpos", x, y, << >>), Cap("showcursor") >>

-----------------------------------------------------------------------------
(* Events and the event channel.                                           *)

NewEventKey(k, r, m) == [ type |-> "key", a |-> k, b |-> r, c |-> m, d |-> 0 ]
NewEventMouse(x, y, btn, m) ==
    [ type |-> "mouse", a |-> x, b |-> y, c |-> btn, d |-> m ]
NewEventResize(nw, nh) ==
    [ type |-> "resize", a |-> nw, b |-> nh, c |-> 0, d |-> 0 ]
UserEvent == [ type |-> "user", a |-> 0, b |-> 0, c |-> 0, d |-> 0 ]
NoEvent == [ type |-> "none", a |-> 0, b |-> 0, c |-> 0, d |-> 0 ]

\* tScreen.PostEvent: a select with a default case, on a channel holding ch
\* with capacity cap (0 for the nil channel, on which a send is never ready).
\* PostEvent putting the event before the events that wait.
TPostEventFront(ch, cap, ev) == IF Len(ch) < cap THEN << ev >> \o ch ELSE ch

TPostEvent(ch, cap, ev) == IF Len(ch) < cap THEN Append(ch, ev) ELSE ch

\* cScreen.PostEvent is a select without default: it can proceed only when
\* quit is closed or the channel has room.
CPostReady == quit = "closed" \/ Len(evch) < evcap

\* The channel contents a ready cScreen.PostEvent can leave (Go picks any
\* ready case).
CPostOutcomes(ch, ev) ==
    (IF quit = "closed" THEN { ch } ELSE { })
    \cup (IF Len(ch) < evcap THEN { Append(ch, ev) } ELSE { })

-----------------------------------------------------------------------------
(* Window size and resize.                                                 *)

\* getWinSize: << w, h, ok >>; the ioctl fails once the terminal is closed.
getWinSize ==
    IF ttyOpen THEN << winsize[1], winsize[2], TRUE >> ELSE << 0, 0, FALSE >>

\* tScreen.resize without its InvalidateCells.
TResizeNoInvalidate(cs, tw, th, tcx, tcy, ch) ==
    LET ws == getWinSize
        nw == ws[1]
        nh == ws[2]
        same == [ cells |-> cs, w |-> tw, h |-> th, cx |-> tcx, cy |-> tcy,
                  evch |-> ch, resized |-> FALSE, fault |-> FALSE ]
    IN  IF ~ws[3] \/ (nw = tw /\ nh = th) THEN same
        ELSE IF ResizeCellsFaults(cs, tw, th, nw, nh)
             THEN [ same EXCEPT !.fault = TRUE ]
        ELSE [ cells |-> ResizeCells(cs, tw, th, nw, nh),
               w |-> nw, h |-> nh, cx |-> -1, cy |-> -1,
               evch |-> TPostEvent(ch, evcap, NewEventResize(nw, nh)),
               resized |-> TRUE, fault |-> FALSE ]

\* tScreen.resize on the fields given: the fields as it leaves them.
TResize(cs, tw, th, tcx, tcy, ch) ==
    LET ws == getWinSize
        nw == ws[1]
        nh == ws[2]
        same == [ cells |-> cs, w |-> tw, h |-> th, cx |-> tcx, cy |-> tcy,
                  evch |-> ch, resized |-> FALSE, fault |-> FALSE ]
    IN  IF ~ws[3] \/ (nw = tw /\ nh = th) THEN same
        ELSE IF ResizeCellsFaults(cs, tw, th, nw, nh)
             THEN [ same EXCEPT !.fault = TRUE ]
        ELSE [ cells |-> InvalidateCells(ResizeCells(cs, tw, th, nw, nh)),
               w |-> nw, h |-> nh, cx |-> -1, cy |-> -1,
               evch |-> TPostEvent(ch, evcap, NewEventResize(nw, nh)),
               resized |-> TRUE, fault |-> FALSE ]

\* getConsoleInfo leaves info zeroed when the handle is closed, and resize
\* computes (right - left) + 1, (bottom - top) + 1 from it.
ConsoleWinSize == IF ttyOpen THEN winsize ELSE << 1, 1 >>

\* cScreen.resize up to its PostEvent: the fields, the output, and whether
\* it goes on to post a resize event.
CResize(cs, sw, sh) ==
    LET nw == ConsoleWinSize[1]
        nh == ConsoleWinSize[2]
    IN  IF sw = nw /\ sh = nh
        THEN [ cells |-> cs, w |-> sw, h |-> sh, out |-> << >>,
               resized |-> FALSE, fault |-> FALSE ]
        ELSE [ cells |-> ResizeCells(cs, sw, sh, nw, nh), w |-> nw, h |-> nh,
               out |-> << Tok("windowinfo", nw, nh, << >>),
                          Tok("buffersize", nw, nh, << >>) >>,
               resized |-> TRUE,
               fault |-> ResizeCellsFaults(cs, sw, sh, nw, nh) ]

-----------------------------------------------------------------------------
(* tScreen.postMouseEvent: the event it posts and wasbtn as it leaves it.  *)

\* postMouseEvent without its debounce: a wheel report is a wheel event
\* whatever came before it.
MouseButtonNoDebounce(btn, wb) ==
    LET sel == (btn % 4) + (IF HasBit(btn, 64) THEN 64 ELSE 0)
    IN  CASE sel = 0 -> << Button1, TRUE >>
          [] sel = 1 -> << Button2, TRUE >>
          [] sel = 2 -> << Button3, TRUE >>
          [] sel = 3 -> << ButtonNone, FALSE >>
          [] sel = 64 -> << WheelUp, wb >>
          [] sel = 65 -> << WheelDown, wb >>
          [] OTHER -> << ButtonNone, wb >>

\* The switch on btn & 0x43 of postMouseEvent: the button dispatched and
\* wasbtn as the switch leaves it.
MouseButton(btn, wb) ==
    LET sel == (btn % 4) + (IF HasBit(btn, 64) THEN 64 ELSE 0)
    IN  CASE sel = 0 -> << Button1, TRUE >>
          [] sel = 1 -> << Button2, TRUE >>
          [] sel = 2 -> << Button3, TRUE >>
          [] sel = 3 -> << ButtonNone, FALSE >>
          [] sel = 64 -> << IF ~wb THEN WheelUp ELSE Button1, wb >>
          [] sel = 65 -> << IF ~wb THEN WheelDown ELSE Button2, wb >>
          [] OTHER -> << ButtonNone, wb >>

MouseMod(btn) ==
    (IF HasBit(btn, 4) THEN ModShift ELSE 0)
    + (IF HasBit(btn, 8) THEN ModMeta ELSE 0)
    + (IF HasBit(btn, 16) THEN ModCtrl ELSE 0)

\* The clipping of postMouseEvent, in its order: below zero first, then
\* above the last column or row.
Clip(v, n) ==
    LET lo == IF v < 0 THEN 0 ELSE v
    IN  IF lo > n - 1 THEN n - 1 ELSE lo

postMouseEvent(x, y, btn, tw, th, wb) ==
    LET bw == MouseButton(btn, wb)
    IN  [ ev |-> NewEventMouse(Clip(x, tw), Clip(y, th), bw[1], MouseMod(btn)),
          wasbtn |-> bw[2] ]

-----------------------------------------------------------------------------
(* The input decoder of the terminfo screen: scanInput and the parsers it  *)
(* tries in turn on the bytes buffered.  A byte is a number in 0 .. 255.   *)
(* A parser gives back what it returned (partial, complete), the buffer    *)
(* as it leaves it, the events it posted and wasbtn.                       *)

\* bytes.HasPrefix(s, p).
HasPrefix(s, p) == Len(p) <= Len(s) /\ SubSeq(s, 1, Len(p)) = p

\* The buffer after n calls of buf.ReadByte().
ReadBytes(b, n) == SubSeq(b, n + 1, Len(b))

\* v with the bit set (v |= bit) or cleared (v &^= bit).
SetBit(v, bit) == IF HasBit(v, bit) THEN v ELSE v + bit
ClearBit(v, bit) == IF HasBit(v, bit) THEN v - bit ELSE v

ParseRet(part, comp, b, evs, wb) ==
    [ part |-> part, comp |-> comp, buf |-> b, evs |-> evs, wasbtn |-> wb,
      calls |-> << >> ]

\* A parser's return after it has called postMouseEvent(x, y, btn): the
\* call is kept with the button it was dispatched as.
MouseRet(b, x, y, btn, m) ==
    [ ParseRet(TRUE, TRUE, b, << m.ev >>, m.wasbtn)
        EXCEPT !.calls = << [ x |-> x, y |-> y, btn |-> btn,
                              button |-> m.ev.c ] >> ]

\* parseSgrMouse: one turn of its loop per byte, i counted from 1.  The
\* switch has no default case: a byte it does not name is passed over.
RECURSIVE SgrLoop(_, _, _, _, _, _, _, _, _, _, _)
SgrLoop(b, i, state, val, dig, neg, x, btn, tw, th, wb) ==
    IF i > Len(b) THEN ParseRet(TRUE, FALSE, b, << >>, wb)
    ELSE
      LET c == b[i]
          fail == ParseRet(FALSE, FALSE, b, << >>, wb)
          sval == IF neg THEN -val ELSE val
      IN  CASE c = 27 ->
                 IF state # 0 THEN fail
                 ELSE SgrLoop(b, i + 1, 1, val, dig, neg, x, btn, tw, th, wb)
            [] c = 155 ->
                 IF state # 0 THEN fail
                 ELSE SgrLoop(b, i + 1, 2, val, dig, neg, x, btn, tw, th, wb)
            [] c = 91 ->
                 IF state # 1 THEN fail
                 ELSE SgrLoop(b, i + 1, 2, val, dig, neg, x, btn, tw, th, wb)
            [] c = 60 ->
                 IF state # 2 THEN fail
                 ELSE SgrLoop(b, i + 1, 3, 0, FALSE, FALSE, x, btn, tw, th, wb)
            [] c = 45 ->
                 IF state # 3 \/ state # 4 \/ state # 5 THEN fail
                 ELSE IF dig \/ neg THEN fail
                 ELSE SgrLoop(b, i + 1, state, val, dig, TRUE, x, btn,
                              tw, th, wb)
            [] c \in 48 .. 57 ->
                 IF state # 3 /\ state # 4 /\ state # 5 THEN fail
                 ELSE SgrLoop(b, i + 1, state, val * 10 + (c - 48), TRUE, neg,
                              x, btn, tw, th, wb)
            [] c = 59 ->
                 IF state = 3
                 THEN SgrLoop(b, i + 1, 4, 0, FALSE, FALSE, x, sval,
                              tw, th, wb)
                 ELSE IF state = 4
                 THEN SgrLoop(b, i + 1, 5, 0, FALSE, FALSE, sval, btn,
                              tw, th, wb)
                 ELSE fail
            [] c = 109 \/ c = 77 ->
                 IF state # 5 THEN fail
                 ELSE LET b1 == ClearBit(btn, 32)
                          b2 == IF c = 109
                                THEN ClearBit(SetBit(SetBit(b1, 1), 2), 64)
                                ELSE b1
                          m == postMouseEvent(x, sval, b2, tw, th, wb)
                      IN  MouseRet(ReadBytes(b, i), x, sval, b2, m)
            [] OTHER ->
                 SgrLoop(b, i + 1, state, val, dig, neg, x, btn, tw, th, wb)

parseSgrMouse(b, tw, th, wb) ==
    SgrLoop(b, 1, 0, 0, FALSE, FALSE, 0, 0, tw, th, wb)

\* parseXtermMouse: the legacy X11 report ESC [ M b x y.
RECURSIVE XtermLoop(_, _, _, _, _, _, _, _)
XtermLoop(b, i, state, btn, x, tw, th, wb) ==
    IF i > Len(b) THEN ParseRet(TRUE, FALSE, b, << >>, wb)
    ELSE
      LET c == b[i]
          fail == ParseRet(FALSE, FALSE, b, << >>, wb)
      IN  CASE state = 0 ->
                 IF c = 27 THEN XtermLoop(b, i + 1, 1, btn, x, tw, th, wb)
                 ELSE IF c = 155
                 THEN XtermLoop(b, i + 1, 2, btn, x, tw, th, wb)
                 ELSE fail
            [] state = 1 ->
                 IF c # 91 THEN fail
                 ELSE XtermLoop(b, i + 1, 2, btn, x, tw, th, wb)
            [] state = 2 ->
                 IF c # 77 THEN fail
                 ELSE XtermLoop(b, i + 1, 3, btn, x, tw, th, wb)
            [] state = 3 -> XtermLoop(b, i + 1, 4, c, x, tw, th, wb)
            [] state = 4 -> XtermLoop(b, i + 1, 5, btn, c - 32 - 1, tw, th, wb)
            [] OTHER ->
                 LET m == postMouseEvent(x, c - 32 - 1, btn, tw, th, wb)
                 IN  MouseRet(ReadBytes(b, i), x, c - 32 - 1, btn, m)

parseXtermMouse(b, tw, th, wb) == XtermLoop(b, 1, 0, 0, 0, tw, th, wb)

\* parseFunctionKey on the key table keys, a set of << key, escape >>
\* pairs.  Go ranges over a map in an order it picks anew every time, and
\* the function returns at the first escape that matches: each matching
\* key is a possible result.
parseFunctionKey(b, keys, wb) ==
    LET hits == { ke \in keys : HasPrefix(b, ke[2]) }
    IN  IF hits # {}
        THEN { ParseRet(TRUE, TRUE, ReadBytes(b, Len(ke[2])),
                        << NewEventKey(ke[1],
                                       IF Len(ke[2]) = 1 THEN b[1] ELSE 0,
                                       ModNone) >>, wb) : ke \in hits }
        ELSE { ParseRet(\E ke \in keys : HasPrefix(ke[2], b), FALSE, b,
                        << >>, wb) }

\* unicode/utf8: the length the first byte announces (1 for a byte that
\* cannot start a rune), and the range the second byte must lie in.
Utf8Need(c) ==
    IF c < 194 THEN 1 ELSE IF c < 224 THEN 2 ELSE IF c < 240 THEN 3
    ELSE IF c < 245 THEN 4 ELSE 1
Utf8Lo(c) == IF c = 224 THEN 160 ELSE IF c = 240 THEN 144 ELSE 128
Utf8Hi(c) == IF c = 237 THEN 159 ELSE IF c = 244 THEN 143 ELSE 191
Utf8Cont(c) == c >= 128 /\ c <= 191

\* utf8.FullRune: the bytes begin with a whole rune, or with an encoding
\* that is already known to be invalid.
FullRune(b) ==
    /\ Len(b) > 0
    /\ \/ Len(b) >= Utf8Need(b[1])
       \/ Len(b) > 1 /\ (b[2] < Utf8Lo(b[1]) \/ b[2] > Utf8Hi(b[1]))
       \/ Len(b) > 2 /\ ~Utf8Cont(b[3])

\* buf.ReadRune: << rune, size >>; an invalid encoding gives U+FFFD and
\* takes one byte.
ReadRune(b) ==
    LET need == Utf8Need(b[1])
        bad == << 65533, 1 >>
    IN  IF b[1] < 128 THEN << b[1], 1 >>
        ELSE IF need = 1 \/ Len(b) < need THEN bad
        ELSE IF b[2] < Utf8Lo(b[1]) \/ b[2] > Utf8Hi(b[1]) THEN bad
        ELSE IF need = 2 THEN << (b[1] - 192) * 64 + (b[2] - 128), 2 >>
        ELSE IF ~Utf8Cont(b[3]) THEN bad
        ELSE IF need = 3
        THEN << (b[1] - 224) * 4096 + (b[2] - 128) * 64 + (b[3] - 128), 3 >>
        ELSE IF ~Utf8Cont(b[4]) THEN bad
        ELSE << (b[1] - 240) * 262144 + (b[2] - 128) * 4096
                + (b[3] - 128) * 64 + (b[4] - 128), 4 >>

\* parseRune on a buffer that is not empty.  The charsets that need a
\* decoder of the encoding package are left out: Init takes UTF-8 or
\* US-ASCII here.
parseRune(b, cset, wb) ==
    IF b[1] >= 32 /\ b[1] <= 127
    THEN ParseRet(TRUE, TRUE, ReadBytes(b, 1),
                  << NewEventKey(KeyRune, b[1], ModNone) >>, wb)
    ELSE IF b[1] < 128 THEN ParseRet(FALSE, FALSE, b, << >>, wb)
    ELSE IF cset = "UTF-8" /\ FullRune(b)
    THEN ParseRet(TRUE, TRUE, ReadBytes(b, ReadRune(b)[2]),
                  << NewEventKey(KeyRune, ReadRune(b)[1], ModNone) >>, wb)
    ELSE IF cset = "US-ASCII"
    THEN ParseRet(TRUE, TRUE, ReadBytes(b, 1),
                  << NewEventKey(KeyRune, b[1] - 128, ModAlt) >>, wb)
    ELSE ParseRet(TRUE, FALSE, b, << >>, wb)

\* What a parser said, for the record of a scan: "comp", "part", "fail",
\* or "skip" when scanInput did not call it.
Verdict(r) == IF r.comp THEN "comp" ELSE IF r.part THEN "part" ELSE "fail"

\* One turn of scanInput's loop: the buffer it found, the verdict of each
\* parser, and how the turn ended: with a parser completing ("rune", "key",
\* "x11", "sgr"), with one byte delivered raw ("raw"), or with the loop
\* left to wait for more bytes ("wait").
ScanStep(b, how, vr, vk, vx, vs) ==
    [ buf |-> b, how |-> how, rune |-> vr, key |-> vk, x11 |-> vx,
      sgr |-> vs ]

\* The fallback of scanInput gone wrong: a byte is delivered raw only when
\* the wait for more bytes has timed out.
FallbackOnExpireOnly(partials, expire) == expire

\* scanInput, when no parser has completed: whether it delivers one byte as
\* it is (nothing was going to match, or the wait timed out) rather than
\* wait for more bytes.
Fallback(partials, expire) == partials = 0 \/ expire

\* scanInput: every result it can have, as the buffer left, the events
\* handed to PostEvent in order, wasbtn, and the turns of the loop.
RECURSIVE scanInput(_, _, _, _, _, _, _)
scanInput(b, expire, tinfo, cset, tw, th, wb) ==
    IF Len(b) = 0
    THEN { [ buf |-> << >>, evs |-> << >>, wasbtn |-> wb, steps |-> << >>,
             calls |-> << >> ] }
    ELSE
      LET Continue(p, st) ==
              { [ o EXCEPT !.evs = p.evs \o @, !.steps = << st >> \o @,
                           !.calls = p.calls \o @ ] :
                  o \in scanInput(p.buf, expire, tinfo, cset, tw, th,
                                  p.wasbtn) }
          r == parseRune(b, cset, wb)
          vr == Verdict(r)
          x == parseXtermMouse(b, tw, th, wb)
          vx == IF tinfo.mouse THEN Verdict(x) ELSE "skip"
          s == parseSgrMouse(b, tw, th, wb)
          vs == IF tinfo.mouse /\ ~x.comp THEN Verdict(s) ELSE "skip"
          AfterKey(f) ==
              LET vk == Verdict(f)
                  partials ==
                      Cardinality({ n \in 1 .. 4 :
                                      << vr, vk, vx, vs >>[n] = "part" })
                  raw == ParseRet(FALSE, FALSE, ReadBytes(b, 1),
                                  << NewEventKey(KeyRune, b[1], ModNone) >>,
                                  wb)
              IN  IF f.comp
                  THEN Continue(f, ScanStep(b, "key", vr, vk, "skip", "skip"))
                  ELSE IF tinfo.mouse /\ x.comp
                  THEN Continue(x, ScanStep(b, "x11", vr, vk, vx, "skip"))
                  ELSE IF tinfo.mouse /\ s.comp
                  THEN Continue(s, ScanStep(b, "sgr", vr, vk, vx, vs))
                  ELSE IF Fallback(partials, expire)
                  THEN Continue(raw, ScanStep(b, "raw", vr, vk, vx, vs))
                  ELSE { [ buf |-> b, evs |-> << >>, wasbtn |-> wb,
                           calls |-> << >>,
                           steps |-> << ScanStep(b, "wait", vr, vk, vx,
                                                 vs) >> ] }
      IN  IF r.comp
          THEN Continue(r, ScanStep(b, "rune", vr, "skip", "skip", "skip"))
          ELSE UNION { AfterKey(f) :
                         f \in parseFunctionKey(b, tinfo.keys, wb) }

\* The events of a scan sent one after the other through tScreen.PostEvent.
RECURSIVE PostAll(_, _, _)
PostAll(ch, cap, evs) ==
    IF evs = << >> THEN ch
    ELSE PostAll(TPostEvent(ch, cap, Head(evs)), cap, Tail(evs))

\* The record of a scan: the buffer and the fields it started from, the
\* result it had, and the calls of postMouseEvent of this and the earlier
\* scans (log holds the earlier ones).
ScanRec(before, expire, tw, th, wb, o, log) ==
    [ done |-> TRUE, before |-> before, expire |-> expire, w |-> tw,
      h |-> th, wb |-> wb, after |-> o.buf, evs |-> o.evs,
      steps |-> o.steps, mouse |-> log \o o.calls ]

NoScan ==
    [ done |-> FALSE, before |-> << >>, expire |-> FALSE, w |-> 0, h |-> 0,
      wb |-> FALSE, after |-> << >>, evs |-> << >>, steps |-> << >>,
      mouse |-> << >> ]

-----------------------------------------------------------------------------
(* The initial state: a screen as NewTerminfoScreen or NewConsoleScreen    *)
(* returns it, before Init.                                                *)

Threads == { "app", "input" }

\* The order of events as an observer sees it, when the observer is on
\* (it is in the specification of the channel, SpecChan, only).  src names,
\* for each event buffered in the channel, the goroutine that posted it
\* and the number of that post among the goroutine's posts; n counts the
\* posts of each goroutine; got is the number of the post PollEvent
\* delivered last, and ngot the count of the deliveries, for each goroutine.
NoOrder ==
    [ on |-> FALSE, src |-> << >>, n |-> [ t \in Threads |-> 0 ],
      got |-> [ t \in Threads |-> 0 ], ngot |-> [ t \in Threads |-> 0 ] ]

\* Goroutine p has called tScreen.PostEvent k times in a row.
Posted(o, p, k, cap) ==
    IF ~o.on THEN o ELSE
    [ o EXCEPT !.src = PostAll(@, cap,
                               [ i \in 1 .. k |-> << p, o.n[p] + i >> ]),
               !.n[p] = @ + k ]

\* Goroutine p has left cScreen.PostEvent, the channel ch now ch2.
Offered(o, p, ch, ch2) ==
    IF ~o.on THEN o ELSE
    [ o EXCEPT !.src = IF Len(ch2) > Len(ch)
                       THEN Append(@, << p, o.n[p] + 1 >>) ELSE @,
               !.n[p] = @ + 1 ]

\* PollEvent has received the first event of the channel.
Delivered(o) ==
    IF ~o.on THEN o ELSE
    LET p == Head(o.src)[1]
    IN  [ o EXCEPT !.src = Tail(@), !.got[p] = Head(o.src)[2],
                   !.ngot[p] = @ + 1 ]

\* The application's latest call: the method, what it returned, the event
\* PollEvent delivered, the output it wrote, whether it was a Show, whether
\* it was a Show right after a Show with the window unchanged, and the
\* coordinates it was given.
LastRec(op, ret, ev, out, fresh, again, at) ==
    [ op |-> op, ret |-> ret, ev |-> ev, out |-> out, fresh |-> fresh,
      again |-> again, at |-> at ]

\* No coordinates.
NoAt == << >>

NoCall == LastRec("none", "none", NoEvent, << >>, FALSE, FALSE, NoAt)

\* The record of a call that returned nothing and wrote nothing.
Plain(op) == LastRec(op, "none", NoEvent, << >>, FALSE, FALSE, NoAt)

\* The terminfo entries a screen is made from, as far as the decoder reads
\* them: t.keys as prepareKeys fills it, a set of << key, escape >> pairs,
\* whether ti.Mouse is set, and ti.AltChars (here "qqxx" or nothing) with
\* ti.EnterAcs and ti.ExitAcs.  TiXterm has a key that is the one byte
\* 0x7F; TiPrefix has a key whose escape begins another key's escape;
\* TiSame has two keys with the same escape and no mouse.
TiXterm ==
    [ mouse |-> TRUE, altchars |-> << 113, 113, 120, 120 >>,
      enteracs |-> << 27, 40, 48 >>, exitacs |-> << 27, 40, 66 >>,
      keys |-> { << KeyUp, << 27, 79, 65 >> >>, << KeyBackspace, << 127 >> >> } ]
TiPrefix ==
    [ mouse |-> TRUE, altchars |-> << 113, 113, 120, 120 >>,
      enteracs |-> << 27, 40, 48 >>, exitacs |-> << 27, 40, 66 >>,
      keys |-> { << KeyF1, << 27, 79 >> >>, << KeyUp, << 27, 79, 65 >> >> } ]
TiSame ==
    [ mouse |-> FALSE, altchars |-> << >>,
      enteracs |-> << >>, exitacs |-> << >>,
      keys |-> { << KeyBackspace, << 8 >> >>, << KeyLeft, << 8 >> >> } ]
Terminfos == { TiXterm, TiPrefix, TiSame }

\* The static table of buildAcsMap: the rune, by the name of its constant,
\* its VT100 name and its ASCII default.
Acs(utf, vt100, ascii) == [ utf |-> utf, vt100 |-> vt100, ascii |-> << ascii >> ]

vtNames ==
    << Acs("RuneSterling", 125, 102), Acs("RuneDArrow", 46, 118),
       Acs("RuneLArrow", 44, 60), Acs("RuneRArrow", 43, 62),
       Acs("RuneUArrow", 45, 94), Acs("RuneBullet", 126, 111),
       Acs("RuneBoard", 104, 35), Acs("RuneCkBoard", 97, 58),
       Acs("RuneDegree", 102, 92), Acs("RuneDiamond", 96, 43),
       Acs("RuneGEqual", 122, 62), Acs("RunePi", 123, 42),
       Acs("RuneHLine", 113, 45), Acs("RuneLantern", 105, 35),
       Acs("RunePlus", 110, 43), Acs("RuneLEqual", 121, 60),
       Acs("RuneLLCorner", 109, 43), Acs("RuneLRCorner", 106, 43),
       Acs("RuneNEqual", 124, 33), Acs("RunePlMinus", 103, 35),
       Acs("RuneS1", 111, 126), Acs("RuneS3", 112, 45),
       Acs("RuneS7", 114, 45), Acs("RuneS9", 115, 95),
       Acs("RuneBlock", 48, 35), Acs("RuneTTee", 119, 43),
       Acs("RuneRTee", 117, 43), Acs("RuneLTee", 116, 43),
       Acs("RuneBTee", 118, 43), Acs("RuneULCorner", 108, 43),
       Acs("RuneURCorner", 107, 43), Acs("RuneVLine", 120, 124) >>

\* The second loop of buildAcsMap: two bytes of the string are taken per
\* turn, while more than two are left.
RECURSIVE AcsLoop(_, _, _, _)
AcsLoop(acsstr, enter, exit, m) ==
    IF Len(acsstr) > 2
    THEN LET srcv == acsstr[1]
             dstv == << acsstr[2] >>
             hits == { i \in 1 .. Len(vtNames) : vtNames[i].vt100 = srcv }
             m2 == IF hits = { } THEN m
                   ELSE LET i == CHOOSE i \in hits : \A j \in hits : i <= j
                        IN  [ m EXCEPT ![vtNames[i].utf] =
                                         enter \o dstv \o exit ]
         IN  AcsLoop(SubSeq(acsstr, 3, Len(acsstr)), enter, exit, m2)
    ELSE m

\* tScreen.buildAcsMap: the map t.acs, the defaults first.
buildAcsMap(tinfo) ==
    LET runes == { vtNames[i].utf : i \in 1 .. Len(vtNames) }
        defaults == [ r \in runes |->
                        LET i == CHOOSE i \in 1 .. Len(vtNames) :
                                     /\ vtNames[i].utf = r
                                     /\ \A j \in 1 .. Len(vtNames) :
                                          vtNames[j].utf = r => i >= j
                        IN  vtNames[i].ascii ]
    IN  AcsLoop(tinfo.altchars, tinfo.enteracs, tinfo.exitacs, defaults)

NewScreen(tis, wins) ==
    /\ backend \in { "terminfo", "console" }
    /\ ti \in tis
    /\ acs = IF backend = "terminfo" THEN buildAcsMap(ti) ELSE << >>
    /\ inbuf = << >>
    /\ scanned = NoScan
    /\ life = "new"
    /\ mu = ""
    /\ pc = [ t \in Threads |-> IF t = "app" THEN "idle" ELSE "none" ]
    /\ pend = [ t \in Threads |-> NoEvent ]
    /\ rep = 0
    /\ fini = FALSE
    /\ w = IF backend = "terminfo" THEN TiSize[1] ELSE 0
    /\ h = IF backend = "terminfo" THEN TiSize[2] ELSE 0
    /\ cells = << >>
    /\ style = StyleDefault
    /\ cursorx = 0 /\ cursory = 0
    /\ clear = FALSE
    /\ curstyle = StyleDefault
    /\ cx = 0 /\ cy = 0
    /\ wasbtn = FALSE
    /\ charset = ""
    /\ evch = << >> /\ evcap = 0
    /\ quit = "nil" /\ indoneq = "nil"
    /\ sigwinch = FALSE
    /\ ttyOpen = FALSE
    /\ winsize \in wins
    /\ nread = 0 /\ nwinch = 0 /\ npost = 0
    /\ last = NoCall
    /\ fault = "none"

Init == NewScreen({ TiXterm }, WinSizes) /\ order = NoOrder

\* Groups of variables for the frame conditions.
gridv == << w, h, cells >>
scrv == << style, cursorx, cursory, clear, curstyle, cx, cy, fini >>
chanv == << evch, order, evcap, quit, indoneq >>
envv == << winsize, sigwinch, nwinch, ttyOpen, charset >>
inv == << wasbtn, nread, rep >>

Goto(t, label) == pc' = [ pc EXCEPT ![t] = label ]

\* A Go run-time panic ends the program: every goroutine with it.
Panic(what) ==
    /\ fault' = what
    /\ pc' = [ t \in Threads |-> "dead" ]
    /\ UNCHANGED << backend, ti, acs, inbuf, scanned,
                    life, mu, pend, rep, fini, w, h, cells,
                    style, cursorx, cursory, clear, curstyle, cx, cy, wasbtn,
                    charset, evch, order, evcap, quit, indoneq, sigwinch,
                    ttyOpen,
                    winsize, nread, nwinch, npost, last >>

-----------------------------------------------------------------------------
(* Init.                                                                   *)

\* tScreen.Init.  It may run on a new screen or after Fini, once the input
\* goroutine of the previous round has gone.
TInit(cs) ==
    /\ backend = "terminfo" /\ pc["app"] = "idle" /\ mu = ""
    /\ life \in { "new", "finished" }
    /\ pc["input"] \in { "none", "exited" }
    /\ evch' = << >> /\ evcap' = EvchCapT
    /\ order' = [ order EXCEPT !.src = << >> ]
    /\ indoneq' = "open"
    /\ charset' = cs
    /\ ttyOpen' = TRUE
    /\ quit' = "open"
    /\ cx' = -1 /\ cy' = -1
    /\ style' = StyleDefault
    /\ cells' = ResizeCells(<< >>, 0, 0, w, h)
    /\ cursorx' = -1 /\ cursory' = -1
    /\ fini' = FALSE
    /\ pc' = [ pc EXCEPT !["input"] = "select" ]
    /\ life' = "running"
    /\ last' = LastRec("Init", "none", NoEvent,
                       << Cap("enterca"), Cap("enterkeypad"),
                          Cap("hidecursor"), Cap("clear") >>,
                       FALSE, FALSE, NoAt)
    /\ inbuf' = << >>
    /\ UNCHANGED << backend, ti, acs, scanned,
                    mu, pend, rep, w, h, clear, curstyle, wasbtn,
                    sigwinch, winsize, nread, nwinch, npost, fault >>

\* cScreen.Init.  Its resize runs without the mutex; the channel is new and
\* has room, so the resize event is always taken.
CInit ==
    /\ backend = "console" /\ pc["app"] = "idle" /\ mu = ""
    /\ life \in { "new", "finished" }
    /\ pc["input"] \in { "none", "exited" }
    /\ LET nw == winsize[1]
           nh == winsize[2]
           rs == w # nw \/ h # nh
       IN  /\ evcap' = EvchCapC
           /\ evch' = IF rs THEN << NewEventResize(nw, nh) >> ELSE << >>
           /\ order' = IF rs THEN Posted([ order EXCEPT !.src = << >> ],
                                          "app", 1, EvchCapC)
                       ELSE [ order EXCEPT !.src = << >> ]
           /\ cells' = IF rs THEN ResizeCells(cells, w, h, nw, nh) ELSE cells
           /\ w' = nw /\ h' = nh
           /\ last' = LastRec("Init", "none", NoEvent,
                          (IF rs THEN << Tok("windowinfo", nw, nh, << >>),
                                         Tok("buffersize", nw, nh, << >>) >>
                           ELSE << >>)
                          \o << Tok("fill", style, nw * nh, << >>),
                                Cap("hidecursor") >>,
                          FALSE, FALSE, NoAt)
    /\ quit' = "open"
    /\ ttyOpen' = TRUE
    /\ cursorx' = -1 /\ cursory' = -1
    /\ pc' = [ pc EXCEPT !["input"] = "read" ]
    /\ life' = "running"
    /\ UNCHANGED << backend, ti, acs, inbuf, scanned,
                    mu, pend, rep, fini, style, clear, curstyle, cx,
                    cy, wasbtn, charset, indoneq, sigwinch, winsize, nread,
                    nwinch, npost, fault >>

-----------------------------------------------------------------------------
(* The methods that take the mutex.  Lock is one step and the critical     *)
(* section with its Unlock the next, so that a goroutine can be seen       *)
(* inside a critical section.  The arguments are drawn when the critical   *)
(* section runs; nothing reads them before.                                *)

\* The bounds check gone wrong by one: x = w passes.
OutOfRangeOffByOne(x, y) == x < 0 \/ y < 0 \/ x > w \/ y >= h

OutOfRange(x, y) == x < 0 \/ y < 0 \/ x >= w \/ y >= h

\* Rune sequences and source cells the application writes.
NarrowCh == << 65 >>
WideCh == << 20013 >>
Contents == { NarrowCh, WideCh }

AppLock(op) ==
    /\ pc["app"] = "idle" /\ mu = ""
    /\ life \in { "running", "finished" }
    /\ mu' = "app"
    /\ Goto("app", op)
    /\ UNCHANGED << backend, ti, acs, inbuf, scanned,
                    life, pend, gridv, scrv, chanv, envv, inv,
                    npost, last, fault >>

\* The end of a critical section of the application: Unlock and return.
AppReturn(rec) ==
    /\ mu' = ""
    /\ Goto("app", "idle")
    /\ last' = rec
    /\ UNCHANGED << backend, ti, acs, inbuf, scanned,
                    life, pend, envv, inv, npost, fault >>

SetStyle(st) ==
    /\ pc["app"] = "SetStyle"
    /\ style' = IF ~fini THEN st ELSE style
    /\ AppReturn(Plain("SetStyle"))
    /\ UNCHANGED << gridv, chanv, cursorx, cursory, clear, curstyle, cx, cy,
                    fini >>

\* tScreen.Clear and cScreen.Clear; only the console sets the clear flag.
Clear ==
    /\ pc["app"] = "Clear"
    /\ cells' = IF ~fini THEN ClearCells(cells, style) ELSE cells
    /\ clear' = IF backend = "console" THEN TRUE ELSE clear
    /\ AppReturn(Plain("Clear"))
    /\ UNCHANGED << w, h, chanv, style, cursorx, cursory, curstyle, cx, cy,
                    fini >>

\* The cell as PutCell leaves it: tScreen puts the style first, cScreen the
\* runes first.
CellPutCell(c, ch, st) ==
    IF backend = "terminfo" THEN PutChars(PutStyle(c, st), ch)
    ELSE PutStyle(PutChars(c, ch), st)

\* A call that indexes the grid past its end: the run-time panic, with the
\* call and its arguments on record.
CellPanic(op, x, y) ==
    /\ fault' = "index out of range"
    /\ pc' = [ t \in Threads |-> "dead" ]
    /\ last' = LastRec(op, "panic", NoEvent, << >>, FALSE, FALSE, << x, y >>)
    /\ UNCHANGED << backend, ti, acs, inbuf, scanned,
                    life, mu, pend, gridv, scrv, chanv, envv, inv,
                    npost >>

\* SetCell and PutCell: the bounds check, then the one cell is written.
\* Only tScreen has a finalized flag; on cScreen fini stays FALSE.
WriteCell(op, x, y, ch, st) ==
    /\ pc["app"] = op
    /\ IF fini \/ OutOfRange(x, y)
       THEN /\ AppReturn(LastRec(op, "none", NoEvent, << >>, FALSE, FALSE,
                                 << x, y >>))
            /\ UNCHANGED << gridv, scrv, chanv >>
       ELSE IF y * w + x + 1 > Len(cells) \/ y * w + x + 1 < 1
       THEN CellPanic(op, x, y)
       ELSE /\ cells' = [ cells EXCEPT ![y * w + x + 1] =
                                         IF op = "SetCell"
                                         THEN CellSetCell(@, ch, st)
                                         ELSE CellPutCell(@, ch, st) ]
            /\ AppReturn(LastRec(op, "none", NoEvent, << >>, FALSE, FALSE,
                                 << x, y >>))
            /\ UNCHANGED << w, h, scrv, chanv >>

SetCell(x, y, ch, st) == WriteCell("SetCell", x, y, ch, st)

\* PutCell takes the runes and the style from the cell it is given.
PutCell(x, y, ch, st) == WriteCell("PutCell", x, y, ch, st)

GetCell(x, y) ==
    /\ pc["app"] = "GetCell"
    /\ IF fini \/ OutOfRange(x, y)
       THEN /\ AppReturn(LastRec("GetCell", "nil", NoEvent, << >>, FALSE,
                                 FALSE, << x, y >>))
            /\ UNCHANGED << gridv, scrv, chanv >>
       ELSE IF y * w + x + 1 > Len(cells) \/ y * w + x + 1 < 1
       THEN CellPanic("GetCell", x, y)
       ELSE /\ AppReturn(LastRec("GetCell", "cell", NoEvent, << >>, FALSE,
                                 FALSE, << x, y >>))
            /\ UNCHANGED << gridv, scrv, chanv >>

\* ShowCursor, and HideCursor as ShowCursor(-1, -1).
ShowCursor(x, y) ==
    /\ pc["app"] = "ShowCursor"
    /\ cursorx' = IF ~fini THEN x ELSE cursorx
    /\ cursory' = IF ~fini THEN y ELSE cursory
    /\ AppReturn(Plain("ShowCursor"))
    /\ UNCHANGED << gridv, chanv, style, clear, curstyle, cx, cy, fini >>

Size ==
    /\ pc["app"] = "Size"
    /\ AppReturn(LastRec("Size", "size", NoEvent, << >>, FALSE, FALSE, NoAt))
    /\ UNCHANGED << gridv, scrv, chanv >>

-----------------------------------------------------------------------------
(* Show and Sync.                                                          *)

\* tScreen.Show (checks fini) and tScreen.Sync (does not).
TShowSync(op) ==
    /\ backend = "terminfo" /\ pc["app"] = op
    /\ IF op = "Show" /\ fini
       THEN /\ AppReturn(Plain("Show"))
            /\ UNCHANGED << gridv, scrv, chanv >>
       ELSE LET r == TResize(cells, w, h, cx, cy, evch)
                cs == IF op = "Sync" THEN InvalidateCells(r.cells) ELSE r.cells
                cl == IF op = "Sync" THEN TRUE ELSE clear
                d == TDraw(cs, r.w, r.h, style, cl, curstyle, cursorx,
                           cursory, charset, << >>)
            IN  IF r.fault \/ d.fault THEN Panic("index out of range")
                ELSE /\ cells' = d.cells
                     /\ w' = r.w /\ h' = r.h
                     /\ cx' = d.cx /\ cy' = d.cy
                     /\ curstyle' = d.curstyle
                     /\ clear' = FALSE
                     /\ evch' = r.evch
                     /\ order' = IF r.resized
                                 THEN Posted(order, "app", 1, evcap)
                                 ELSE order
                     /\ AppReturn(LastRec(op, "none", NoEvent, d.out,
                                          op = "Show",
                                          last.fresh /\ ~r.resized, NoAt))
                     /\ UNCHANGED << style, cursorx, cursory, fini, evcap,
                                     quit, indoneq >>

\* The rest of cScreen.Show and cScreen.Sync once resize has returned:
\* draw, doCursor, Unlock.
\* d is what draw left.
CShowFinish(op, d, again) ==
    /\ cells' = d.cells
    /\ clear' = FALSE
    /\ mu' = ""
    /\ Goto("app", "idle")
    /\ last' = LastRec(op, "none", NoEvent,
                       d.out \o doCursor(cursorx, cursory, w, h),
                       op = "Show", again, NoAt)
    /\ UNCHANGED << backend, ti, acs, inbuf, scanned,
                    life, envv, inv, npost, fault, w, h, style,
                    cursorx, cursory, curstyle, cx, cy, fini, evcap, quit,
                    indoneq >>

\* cScreen.Show and cScreen.Sync up to the PostEvent of resize, which waits
\* while the channel is full and quit is open, the mutex held.
CShowSync(op) ==
    /\ backend = "console" /\ pc["app"] = op
    /\ LET cs == IF op = "Sync" THEN InvalidateCells(cells) ELSE cells
           r == CResize(cs, w, h)
       IN  IF r.fault THEN Panic("index out of range")
           ELSE IF r.resized
           THEN /\ cells' = r.cells /\ w' = r.w /\ h' = r.h
                /\ pend' = [ pend EXCEPT !["app"] = NewEventResize(r.w, r.h) ]
                /\ Goto("app", IF op = "Show" THEN "ShowPost" ELSE "SyncPost")
                /\ UNCHANGED << backend, ti, acs, inbuf, scanned,
                                life, mu, scrv, chanv, envv, inv,
                                npost, last, fault >>
           ELSE LET d == CDraw(cs, w, h, style, clear,
                               << Cap("hidecursor") >>)
                IN  IF d.fault THEN Panic("index out of range")
                    ELSE /\ CShowFinish(op, d, last.fresh)
                         /\ UNCHANGED << pend, evch, order >>

CShowPost(op) ==
    /\ backend = "console"
    /\ pc["app"] = (IF op = "Show" THEN "ShowPost" ELSE "SyncPost")
    /\ CPostReady
    /\ LET d == CDraw(cells, w, h, style, clear,
                      << Cap("hidecursor"), Tok("windowinfo", w, h, << >>),
                         Tok("buffersize", w, h, << >>) >>)
       IN  IF d.fault THEN Panic("index out of range")
           ELSE /\ \E ch \in CPostOutcomes(evch, pend["app"]) : evch' = ch
                /\ order' = Offered(order, "app", evch, evch')
                /\ pend' = [ pend EXCEPT !["app"] = NoEvent ]
                /\ CShowFinish(op, d, FALSE)

-----------------------------------------------------------------------------
(* Fini.                                                                   *)

FiniOut == << Cap("showcursor"), Cap("attroff"), Cap("clear"),
              Cap("exitca"), Cap("exitkeypad"), Tok("mousemode", 0, 0, << >>) >>

\* tScreen.Fini, first critical section: Lock.
TFiniLock ==
    /\ backend = "terminfo" /\ pc["app"] = "idle" /\ mu = ""
    /\ life \in { "running", "finished" }
    /\ mu' = "app"
    /\ Goto("app", "Fini")
    /\ UNCHANGED << backend, ti, acs, inbuf, scanned,
                    life, pend, gridv, scrv, chanv, envv, inv,
                    npost, last, fault >>

\* ... t.w = 0, t.h = 0, t.fini = true, Unlock.
TFiniFlag ==
    /\ backend = "terminfo" /\ pc["app"] = "Fini"
    /\ w' = 0 /\ h' = 0 /\ fini' = TRUE
    /\ mu' = ""
    /\ Goto("app", "FiniQuit")
    /\ UNCHANGED << backend, ti, acs, inbuf, scanned,
                    life, pend, cells, style, cursorx, cursory,
                    clear, curstyle, cx, cy, chanv, envv, inv, npost, last,
                    fault >>

\* ... the six TPuts and close(t.quit), all outside the mutex.
TFiniQuit ==
    /\ backend = "terminfo" /\ pc["app"] = "FiniQuit"
    /\ IF quit = "closed" THEN Panic("close of closed channel")
       ELSE /\ quit' = IF quit = "nil" THEN "nil" ELSE "closed"
            /\ Goto("app", "FiniCells")
            /\ last' = LastRec("Fini", "none", NoEvent, FiniOut, FALSE,
                               FALSE, NoAt)
            /\ UNCHANGED << backend, ti, acs, inbuf, scanned,
                            life, mu, pend, gridv, scrv, evch, order,
                            evcap, indoneq, envv, inv, npost, fault >>

\* ... t.cells = nil, t.curstyle = Style(-1), t.clear = false, still
\* outside the mutex.
TFiniCells ==
    /\ backend = "terminfo" /\ pc["app"] = "FiniCells"
    /\ cells' = << >>
    /\ curstyle' = StyleInvalid
    /\ clear' = FALSE
    /\ Goto("app", "FiniTermio")
    /\ UNCHANGED << backend, ti, acs, inbuf, scanned,
                    life, mu, pend, w, h, style, cursorx, cursory,
                    cx, cy, fini, chanv, envv, inv, npost, last, fault >>

\* ... termioFini: stop the signal, wait for the input goroutine's
\* completion signal, close the terminal.
TFiniTermio ==
    /\ backend = "terminfo" /\ pc["app"] = "FiniTermio"
    /\ indoneq = "closed"
    /\ ttyOpen' = FALSE
    /\ life' = "finished"
    /\ Goto("app", "idle")
    /\ UNCHANGED << backend, ti, acs, inbuf, scanned,
                    mu, pend, gridv, scrv, chanv, winsize, sigwinch,
                    nwinch, charset, inv, npost, last, fault >>

\* cScreen.Fini takes no mutex and has no finalized flag to set.
CFini ==
    /\ backend = "console" /\ pc["app"] = "idle"
    /\ life \in { "running", "finished" }
    /\ IF quit # "open" THEN Panic("close of closed channel")
       ELSE /\ style' = StyleDefault
            /\ cursorx' = -1 /\ cursory' = -1
            /\ quit' = "closed"
            /\ ttyOpen' = FALSE
            /\ life' = "finished"
            /\ last' = LastRec("Fini", "none", NoEvent,
                               << Cap("showcursor"),
                                  Tok("buffersize", 0, 0, << >>),
                                  Tok("fill", StyleDefault, w * h, << >>),
                                  Tok("cursorpos", 0, 0, << >>),
                                  Tok("textattr", StyleDefault, 0, << >>) >>,
                               FALSE, FALSE, NoAt)
            /\ UNCHANGED << backend, ti, acs, inbuf, scanned,
                            mu, pc, pend, gridv, clear, curstyle,
                            cx, cy, fini, evch, order, evcap, indoneq, winsize,
                            sigwinch, nwinch, charset, inv, npost, fault >>

-----------------------------------------------------------------------------
(* PostEvent and PollEvent.                                                *)

\* tScreen.PostEvent never waits: one step.
TPost ==
    /\ backend = "terminfo" /\ pc["app"] = "idle"
    /\ life \in { "running", "finished" }
    /\ evch' = TPostEvent(evch, evcap, UserEvent)
    /\ order' = Posted(order, "app", 1, evcap)
    /\ npost' = npost + 1
    /\ last' = Plain("PostEvent")
    /\ UNCHANGED << backend, ti, acs, inbuf, scanned,
                    life, mu, pc, pend, gridv, scrv, evcap, quit,
                    indoneq, envv, inv, fault >>

\* cScreen.PostEvent: the call, then the select once one of its cases is
\* ready.
CPostCall ==
    /\ backend = "console" /\ pc["app"] = "idle"
    /\ life \in { "running", "finished" }
    /\ pend' = [ pend EXCEPT !["app"] = UserEvent ]
    /\ npost' = npost + 1
    /\ Goto("app", "Post")
    /\ UNCHANGED << backend, ti, acs, inbuf, scanned,
                    life, mu, gridv, scrv, chanv, envv, inv, last,
                    fault >>

CPostDone ==
    /\ backend = "console" /\ pc["app"] = "Post"
    /\ CPostReady
    /\ \E ch \in CPostOutcomes(evch, pend["app"]) : evch' = ch
    /\ order' = Offered(order, "app", evch, evch')
    /\ pend' = [ pend EXCEPT !["app"] = NoEvent ]
    /\ Goto("app", "idle")
    /\ last' = Plain("PostEvent")
    /\ UNCHANGED << backend, ti, acs, inbuf, scanned,
                    life, mu, gridv, scrv, evcap, quit, indoneq,
                    envv, inv, npost, fault >>

\* PollEvent, the same select on both backends: the call ...
PollCall ==
    /\ pc["app"] = "idle"
    /\ life \in { "running", "finished" }
    /\ Goto("app", "Poll")
    /\ UNCHANGED << backend, ti, acs, inbuf, scanned,
                    life, mu, pend, gridv, scrv, chanv, envv, inv,
                    npost, last, fault >>

\* ... returning nil when the quit case is taken ...
PollQuit ==
    /\ pc["app"] = "Poll"
    /\ quit = "closed"
    /\ Goto("app", "idle")
    /\ last' = LastRec("PollEvent", "nil", NoEvent, << >>, FALSE, FALSE,
                       NoAt)
    /\ UNCHANGED << backend, ti, acs, inbuf, scanned,
                    life, mu, pend, gridv, scrv, chanv, envv, inv,
                    npost, fault >>

\* ... or the first buffered event when the channel case is taken.
PollEvent ==
    /\ pc["app"] = "Poll"
    /\ Len(evch) > 0
    /\ evch' = Tail(evch)
    /\ order' = Delivered(order)
    /\ Goto("app", "idle")
    /\ last' = LastRec("PollEvent", "event", Head(evch), << >>, FALSE, FALSE,
                       NoAt)
    /\ UNCHANGED << backend, ti, acs, inbuf, scanned,
                    life, mu, pend, gridv, scrv, evcap, quit,
                    indoneq, envv, inv, npost, fault >>

-----------------------------------------------------------------------------
(* tScreen.inputLoop, and the bytes its reads bring.                       *)

\* The strict prefixes of s that are not empty, and s itself.
Prefixes(s) == { SubSeq(s, 1, n) : n \in 1 .. Len(s) }

\* The bytes of whole events: the rune U+4E2D in UTF-8, the escapes of the
\* key tables, an X11 mouse report (button byte 35, column byte 36, row
\* byte 32: no button, column 3, row -1),
\* and SGR mouse reports: ESC [ < 0 ; 0 ; 0 M, ESC [ < 0 ; 1 ; 1 M, its
\* release ESC [ < 0 ; 1 ; 1 m, and ESC [ < 0 ; - 3 ; 5 M.
Utf8Seq == << 228, 184, 173 >>
X11Seq == << 27, 91, 77, 35, 36, 32 >>

\* X11 mouse reports at column 0, row 0 (bytes 33, 33): a press of the
\* first button (32 + 0), the same with Shift (32 + 4), a motion with the
\* first button down (32 + 32), a release (32 + 3), the wheel up (32 + 64).
X11Report(bb) == << 27, 91, 77, bb, 33, 33 >>
X11Buttons == { 32, 36, 64, 35, 96 }
X11Reports == { X11Report(bb) : bb \in X11Buttons }
SgrZero == << 27, 91, 60, 48, 59, 48, 59, 48, 77 >>
SgrPress == << 27, 91, 60, 48, 59, 49, 59, 49, 77 >>
SgrRelease == << 27, 91, 60, 48, 59, 49, 59, 49, 109 >>
SgrNegative == << 27, 91, 60, 48, 59, 45, 51, 59, 53, 77 >>
EventSeqs ==
    { Utf8Seq, X11Seq, SgrZero, SgrPress, SgrRelease, SgrNegative }
    \cup X11Reports
    \cup { ke[2] : ke \in UNION { t.keys : t \in Terminfos } }

\* Bytes that begin no event: a control byte, ESC before a byte that no
\* escape continues with, a byte that is no UTF-8, and a report with a
\* stray byte in it.
JunkSeqs ==
    { << 1 >>, << 27, 120 >>, << 255 >>, << 1, 2 >>,
      << 27, 120, 91, 60, 48, 59, 49, 59, 49, 77 >> }

\* The SGR mouse report ESC [ < btn ; 1 ; 1 fin, btn below 100 and fin 'M'
\* (77) or 'm' (109).
SgrReport(btn, fin) ==
    << 27, 91, 60 >>
    \o (IF btn >= 10 THEN << 48 + (btn \div 10) >> ELSE << >>)
    \o << 48 + (btn % 10), 59, 49, 59, 49, fin >>

\* Mouse reports one after another in one read: presses of the first and
\* the third button, a release in its 'm' and in its 'M' form, the wheel
\* up and down, and the wheel's fourth direction.
MaxReports == 3
SgrReports ==
    { SgrReport(0, 77), SgrReport(2, 77), SgrReport(0, 109),
      SgrReport(3, 77), SgrReport(64, 77), SgrReport(65, 77),
      SgrReport(67, 77) }
RECURSIVE Trains(_)
Trains(n) ==
    IF n = 0 THEN { << >> }
    ELSE LET t == Trains(n - 1)
         IN  t \cup { a \o r : a \in t, r \in SgrReports }
MouseTrains == Trains(MaxReports) \ { << >> }

\* What one read can bring in the decoder's specification: an event's
\* bytes, whole or cut short, a letter, bytes of no event, or mouse
\* reports in a row.
ScanChunks ==
    UNION { Prefixes(s) : s \in EventSeqs } \cup JunkSeqs \cup { NarrowCh }
    \cup MouseTrains

\* What one read brings in the screen's specification: a letter, a mouse
\* report inside the screen, one outside it.
ReadChunks == { NarrowCh, SgrZero, X11Seq }

\* The select at the top of the loop: the quit case.
TInQuit ==
    /\ backend = "terminfo" /\ pc["input"] = "select"
    /\ quit = "closed"
    /\ indoneq' = "closed"
    /\ Goto("input", "exited")
    /\ UNCHANGED << backend, ti, acs, inbuf, scanned,
                    life, mu, pend, gridv, scrv, evch, order, evcap,
                    quit,
                    envv, inv, npost, last, fault >>

\* The sigwinch case, up to and including Lock.
TInWinch ==
    /\ backend = "terminfo" /\ pc["input"] = "select"
    /\ sigwinch /\ mu = ""
    /\ sigwinch' = FALSE
    /\ mu' = "input"
    /\ Goto("input", "winch")
    /\ UNCHANGED << backend, ti, acs, inbuf, scanned,
                    life, pend, gridv, scrv, chanv, winsize, nwinch,
                    ttyOpen, charset, inv, npost, last, fault >>

\* ... t.resize() and Unlock.
TInResize ==
    /\ backend = "terminfo" /\ pc["input"] = "winch"
    /\ LET r == TResize(cells, w, h, cx, cy, evch)
       IN  IF r.fault THEN Panic("index out of range")
           ELSE /\ cells' = r.cells /\ w' = r.w /\ h' = r.h
                /\ cx' = r.cx /\ cy' = r.cy
                /\ evch' = r.evch
                /\ order' = IF r.resized
                            THEN Posted(order, "input", 1, evcap)
                            ELSE order
                /\ mu' = ""
                /\ Goto("input", "select")
                /\ last' = [ last EXCEPT !.fresh = last.fresh /\ ~r.resized ]
                /\ UNCHANGED << backend, ti, acs, inbuf, scanned,
                                life, pend, style, cursorx, cursory,
                                clear, curstyle, fini, evcap, quit, indoneq,
                                envv, inv, npost, fault >>

\* The default case: go on to read.
TInDefault ==
    /\ backend = "terminfo" /\ pc["input"] = "select"
    /\ quit # "closed" /\ ~sigwinch
    /\ Goto("input", "read")
    /\ UNCHANGED << backend, ti, acs, inbuf, scanned,
                    life, mu, pend, gridv, scrv, chanv, envv, inv,
                    npost, last, fault >>

\* A read that brought data: buf.Write(chunk) and scanInput(buf, false).
\* postMouseEvent reads t.w and t.h, and PostEvent sends, without the mutex.
TInData(chunk) ==
    /\ backend = "terminfo" /\ pc["input"] = "read"
    /\ nread' = nread + 1
    /\ \E o \in scanInput(inbuf \o chunk, FALSE, ti, charset, w, h, wasbtn) :
          /\ inbuf' = o.buf
          /\ evch' = PostAll(evch, evcap, o.evs)
          /\ order' = Posted(order, "input", Len(o.evs), evcap)
          /\ wasbtn' = o.wasbtn
          /\ scanned' = ScanRec(inbuf \o chunk, FALSE, w, h, wasbtn, o,
                                  scanned.mouse)
    /\ Goto("input", "select")
    /\ UNCHANGED << backend, ti, acs, life, mu, pend, rep, gridv, scrv,
                    evcap,
                    quit, indoneq, envv, npost, last, fault >>

\* A read that timed out (io.EOF): scanInput(buf, true) when bytes are
\* waiting in the buffer.
TInTimeout ==
    /\ backend = "terminfo" /\ pc["input"] = "read"
    /\ IF inbuf = << >>
       THEN UNCHANGED << inbuf, evch, order, wasbtn, scanned >>
       ELSE \E o \in scanInput(inbuf, TRUE, ti, charset, w, h, wasbtn) :
              /\ inbuf' = o.buf
              /\ evch' = PostAll(evch, evcap, o.evs)
              /\ order' = Posted(order, "input", Len(o.evs), evcap)
              /\ wasbtn' = o.wasbtn
              /\ scanned' = ScanRec(inbuf, TRUE, w, h, wasbtn, o,
                                      scanned.mouse)
    /\ Goto("input", "select")
    /\ UNCHANGED << backend, ti, acs, life, mu, pend, rep, nread, gridv,
                    scrv,
                    evcap, quit, indoneq, envv, npost, last, fault >>

\* A read that failed: close(t.indoneq) and return.
TInError ==
    /\ backend = "terminfo" /\ pc["input"] = "read"
    /\ indoneq' = "closed"
    /\ Goto("input", "exited")
    /\ UNCHANGED << backend, ti, acs, inbuf, scanned,
                    life, mu, pend, gridv, scrv, evch, order, evcap,
                    quit,
                    envv, inv, npost, last, fault >>

-----------------------------------------------------------------------------
(* cScreen.scanInput and getConsoleInput.                                  *)

\* A key-down record with repeat count n: n events to post, one by one.
CInKey(n) ==
    /\ backend = "console" /\ pc["input"] = "read"
    /\ ttyOpen
    /\ nread' = nread + 1
    /\ pend' = [ pend EXCEPT !["input"] = NewEventKey(KeyRune, NarrowCh[1], ModNone) ]
    /\ rep' = n
    /\ Goto("input", "post")
    /\ UNCHANGED << backend, ti, acs, inbuf, scanned,
                    life, mu, gridv, scrv, chanv, envv, wasbtn,
                    npost, last, fault >>

\* A mouse record: posted with the record's coordinates as they are.
CInMouse(x, y) ==
    /\ backend = "console" /\ pc["input"] = "read"
    /\ ttyOpen
    /\ nread' = nread + 1
    /\ pend' = [ pend EXCEPT !["input"] = NewEventMouse(x, y, Button1, ModNone) ]
    /\ rep' = 1
    /\ Goto("input", "post")
    /\ UNCHANGED << backend, ti, acs, inbuf, scanned,
                    life, mu, gridv, scrv, chanv, envv, wasbtn,
                    npost, last, fault >>

\* A resize record: the event is posted; the grid is left to Show and Sync.
CInResize ==
    /\ backend = "console" /\ pc["input"] = "read"
    /\ ttyOpen /\ sigwinch
    /\ sigwinch' = FALSE
    /\ pend' = [ pend EXCEPT !["input"] =
                   NewEventResize(winsize[1], winsize[2]) ]
    /\ rep' = 1
    /\ Goto("input", "post")
    /\ UNCHANGED << backend, ti, acs, inbuf, scanned,
                    life, mu, gridv, scrv, chanv, winsize, nwinch,
                    ttyOpen, charset, wasbtn, nread, npost, last, fault >>

\* The blocking PostEvent of the input goroutine.
CInPost ==
    /\ backend = "console" /\ pc["input"] = "post"
    /\ CPostReady
    /\ \E ch \in CPostOutcomes(evch, pend["input"]) : evch' = ch
    /\ order' = Offered(order, "input", evch, evch')
    /\ rep' = rep - 1
    /\ IF rep > 1
       THEN UNCHANGED << pc, pend >>
       ELSE /\ Goto("input", "read")
            /\ pend' = [ pend EXCEPT !["input"] = NoEvent ]
    /\ UNCHANGED << backend, ti, acs, inbuf, scanned,
                    life, mu, gridv, scrv, evcap, quit, indoneq,
                    envv, wasbtn, nread, npost, last, fault >>

\* ReadConsoleInput fails once the handle is closed: scanInput returns.
CInError ==
    /\ backend = "console" /\ pc["input"] = "read"
    /\ ~ttyOpen
    /\ Goto("input", "exited")
    /\ UNCHANGED << backend, ti, acs, inbuf, scanned,
                    life, mu, pend, gridv, scrv, chanv, envv, inv,
                    npost, last, fault >>

-----------------------------------------------------------------------------
(* The terminal: the user resizes the window.  The terminfo backend gets   *)
(* a SIGWINCH in its 1-slot channel, the console a resize input record.    *)

WinChange ==
    /\ ttyOpen
    /\ nwinch' = nwinch + 1
    /\ \E s \in WinSizes \ { winsize } : winsize' = s
    /\ sigwinch' = TRUE
    /\ UNCHANGED << backend, ti, acs, inbuf, scanned,
                    life, mu, pc, pend, gridv, scrv, chanv, ttyOpen,
                    charset, inv, npost, last, fault >>

-----------------------------------------------------------------------------
(* The specifications.  Spec is the screen's life: Init, Show and Sync,    *)
(* Fini, the event channel, the input goroutine and the window changing    *)
(* size, all interleaved.  SpecGrid is one application thread working on   *)
(* the grid, with every kind of argument, through the same actions.        *)

\* Show, Sync and Fini, step by step.
LifeStep ==
    \/ \E op \in { "Show", "Sync" } : TShowSync(op)
    \/ \E op \in { "Show", "Sync" } : CShowSync(op)
    \/ \E op \in { "Show", "Sync" } : CShowPost(op)
    \/ TFiniLock
    \/ TFiniFlag
    \/ TFiniQuit
    \/ TFiniCells
    \/ TFiniTermio
    \/ CFini

AppStep ==
    \/ TInit("UTF-8")
    \/ CInit
    \/ LifeStep
    \/ \E op \in { "Show", "Sync" } : AppLock(op)
    \/ (npost < MaxPost /\ TPost)
    \/ (npost < MaxPost /\ CPostCall)
    \/ CPostDone
    \/ PollCall
    \/ PollQuit
    \/ PollEvent

InputStep ==
    \/ TInQuit
    \/ TInWinch
    \/ TInResize
    \/ TInDefault
    \/ (nread < MaxReads /\ \E c \in ReadChunks : TInData(c))
    \/ TInTimeout
    \/ TInError
    \/ (nread < MaxReads /\ \E n \in 1 .. MaxRepeat : CInKey(n))
    \/ (nread < MaxReads /\ \E x \in { 0 }, y \in { 0 } : CInMouse(x, y))
    \/ CInResize
    \/ CInPost
    \/ CInError

\* The window changes size while the program runs.
EnvStep == fault = "none" /\ nwinch < MaxWinch /\ WinChange

Next == AppStep \/ InputStep \/ EnvStep

Spec == Init /\ [][Next]_vars

\* SpecGrid: one application thread that initialises the screen once and
\* then reads and writes cells, at coordinates inside and outside the grid,
\* shows, syncs and finalises; the input goroutine only ends.
GridOps == { "Clear", "SetCell", "PutCell", "GetCell", "Size", "Show", "Sync" }

GridStep ==
    \/ (life = "new" /\ TInit("UTF-8"))
    \/ (life = "new" /\ CInit)
    \/ LifeStep
    \/ \E op \in GridOps : AppLock(op)
    \/ Clear
    \/ \E p \in CellAt : SetCell(p[1], p[2], WideCh, StyleRed)
    \/ \E p \in CellAt : PutCell(p[1], p[2], NarrowCh, StyleRed)
    \/ \E p \in CellAt : GetCell(p[1], p[2])
    \/ Size

NextGrid == GridStep \/ TInQuit \/ CInError \/ EnvStep

SpecGrid == Init /\ [][NextGrid]_vars

\* SpecDraw: one application thread that draws, on a UTF-8 or a US-ASCII
\* terminal: styles, runes narrow and wide in the first row, the cursor,
\* Clear, Show and Sync, while the window changes size.
DrawOps == { "SetStyle", "Clear", "SetCell", "ShowCursor", "Show", "Sync" }

\* Where the application shows or hides the cursor.
CursorAt == { << -1, -1 >>, << 1, 0 >> }

DrawStep ==
    \/ (life = "new" /\ \E cs \in { "UTF-8", "US-ASCII" } : TInit(cs))
    \/ (life = "new" /\ CInit)
    \/ \E op \in { "Show", "Sync" } : TShowSync(op)
    \/ \E op \in { "Show", "Sync" } : CShowSync(op)
    \/ \E op \in { "Show", "Sync" } : CShowPost(op)
    \/ \E op \in DrawOps : AppLock(op)
    \/ \E st \in Styles : SetStyle(st)
    \/ Clear
    \/ \E x \in 0 .. 1, ch \in Contents : SetCell(x, 0, ch, StyleRed)
    \/ \E p \in CursorAt : ShowCursor(p[1], p[2])

NextDraw == DrawStep \/ EnvStep

SpecDraw == Init /\ [][NextDraw]_vars

\* SpecScan is the input goroutine alone, decoding what the terminal sends:
\* a screen made from any of the terminfo entries, Init with either charset,
\* and reads that bring whole events, events cut short and other bytes.
InitScan ==
    /\ NewScreen(Terminfos, WinSizes) /\ backend = "terminfo"
    /\ order = NoOrder

DecodeStep ==
    \/ (life = "new" /\ \E cs \in { "UTF-8", "US-ASCII" } : TInit(cs))
    \/ TInDefault
    \/ (nread < MaxReads /\ \E c \in ScanChunks : TInData(c))
    \/ TInTimeout

NextScan == DecodeStep

SpecScan == InitScan /\ [][NextScan]_vars

\* SpecPass is the drawing pass of the terminfo screen on a window of three
\* columns and one row, the application alone: it sets the style, writes
\* narrow and wide runes anywhere in the row, shows, and may finalise the
\* screen and initialise it again.
PassSize == << 3, 1 >>
PassOps == { "SetStyle", "SetCell", "Show" }

InitPass ==
    /\ NewScreen({ TiXterm }, { PassSize }) /\ backend = "terminfo"
    /\ order = NoOrder

PassStep ==
    \/ \E cs \in { "UTF-8", "US-ASCII" } : TInit(cs)
    \/ \E op \in PassOps : AppLock(op)
    \/ \E st \in Styles : SetStyle(st)
    \/ \E x \in 0 .. PassSize[1] - 1, ch \in Contents :
          SetCell(x, 0, ch, StyleRed)
    \/ TShowSync("Show")
    \/ TFiniLock
    \/ TFiniFlag
    \/ TFiniQuit
    \/ TFiniCells
    \/ TInQuit
    \/ TFiniTermio

NextPass == PassStep

SpecPass == InitPass /\ [][NextPass]_vars

\* SpecSize is the screen's size on both backends: Init, Show, Sync and
\* Fini by the application, the window changing size, and the input
\* goroutine seeing the change; no cell is written and no event is read.
SizeStep ==
    \/ TInit("UTF-8")
    \/ CInit
    \/ LifeStep
    \/ \E op \in { "Show", "Sync" } : AppLock(op)
    \/ TInQuit
    \/ TInWinch
    \/ TInResize
    \/ TInDefault
    \/ TInTimeout
    \/ TInError
    \/ CInResize
    \/ CInPost
    \/ CInError

NextSize == SizeStep \/ EnvStep

SpecSize == Init /\ [][NextSize]_vars

\* SpecQuit is the end of the input goroutine on the terminfo screen: Init
\* and Fini by the application, and the whole of inputLoop, while the
\* window changes size up to MaxQuitWinch times.  The goroutine is scheduled
\* while it can run (a select with a case ready, a resize that has the
\* mutex), and so is an application that holds the mutex.
MaxQuitWinch == 2

QuitAppStep ==
    \/ TInit("UTF-8")
    \/ TFiniLock
    \/ TFiniFlag
    \/ TFiniQuit
    \/ TFiniCells
    \/ TFiniTermio

QuitInputStep ==
    \/ TInQuit
    \/ TInWinch
    \/ TInResize
    \/ TInDefault
    \/ (nread < MaxReads /\ TInData(NarrowCh))
    \/ TInTimeout
    \/ TInError

QuitEnvStep == fault = "none" /\ nwinch < MaxQuitWinch /\ WinChange

InitQuit == Init /\ backend = "terminfo"

NextQuit == QuitAppStep \/ QuitInputStep \/ QuitEnvStep

InputRuns == TInQuit \/ TInWinch \/ TInResize

AppUnlocks == TFiniFlag

SpecQuit ==
    /\ InitQuit /\ [][NextQuit]_vars
    /\ WF_vars(InputRuns) /\ WF_vars(AppUnlocks)

\* SpecAcs is the terminfo screen made from terminfo entries whose acs_chars
\* are any string of up to MaxAcsPairs pairs, with or without a byte left
\* over: a VT100 name of the table's first entry, of its last, or of none,
\* and a character of the terminal.  The screen is initialised and shown.
MaxAcsPairs == 2
AcsPairs == { << n, c >> : n \in { 125, 120, 90 }, c \in { 97, 98 } }

RECURSIVE AcsStrings(_)
AcsStrings(n) ==
    IF n = 0 THEN { << >> }
    ELSE LET shorter == AcsStrings(n - 1)
         IN  shorter \cup { s \o p : s \in shorter, p \in AcsPairs }

AcsTerminfos ==
    { [ TiXterm EXCEPT !.altchars = s \o t ] :
        s \in AcsStrings(MaxAcsPairs), t \in { << >>, << 113 >> } }

InitAcs ==
    /\ NewScreen(AcsTerminfos, { TiSize }) /\ backend = "terminfo"
    /\ order = NoOrder

AcsStep ==
    \/ (life = "new" /\ TInit("US-ASCII"))
    \/ AppLock("Show")
    \/ TShowSync("Show")

NextAcs == AcsStep

SpecAcs == InitAcs /\ [][NextAcs]_vars

\* SpecChan is the event channel of the terminfo screen with its two
\* producers and its consumer: the application posts its events, more of
\* them than the channel holds, and polls; the input goroutine posts the
\* keys it decodes, two letters to a read; an observer keeps who posted
\* what.
MaxChanPosts == 12
MaxChanReads == 1
ChanChunks == { << 65, 66 >> }

InitChan ==
    /\ NewScreen({ TiXterm }, WinSizes) /\ backend = "terminfo"
    /\ order = [ NoOrder EXCEPT !.on = TRUE ]

ChanStep ==
    \/ (life = "new" /\ TInit("UTF-8"))
    \/ (npost < MaxChanPosts /\ TPost)
    \/ PollCall
    \/ PollEvent
    \/ TInDefault
    \/ (nread < MaxChanReads /\ \E c \in ChanChunks : TInData(c))
    \/ TInTimeout

NextChan == ChanStep

SpecChan == InitChan /\ [][NextChan]_vars

-----------------------------------------------------------------------------
(* The properties.                                                         *)

\* The program positions at which a goroutine is inside cScreen.PostEvent.
PostPcs == { "Post", "ShowPost", "SyncPost", "post" }

\* C1: PostEvent never blocks its caller on either backend, and the channel
\* never holds more events than its capacity: whenever a goroutine is inside
\* PostEvent, PostEvent can return.
C1_PostEventNeverBlocks ==
    /\ Len(evch) <= evcap
    /\ \A t \in Threads : pc[t] \in PostPcs => CPostReady

\* C2: Show and Sync wait for nothing but the mutex: once Show or Sync holds
\* the mutex it can always go on to its Unlock, whatever the event channel
\* holds.
C2_ShowSyncNeverWait ==
    (mu = "app" /\ pc["app"] \in { "ShowPost", "SyncPost" })
        => (quit = "closed" \/ Len(evch) < evcap)

\* C3: once Fini has returned, a PollEvent returns nil, also when events are
\* still buffered in the channel.
C3_NoEventAfterFini ==
    (life = "finished" /\ last.op = "PollEvent") => last.ret = "nil"

\* C4: when the input goroutine has ended on a read error, a PollEvent that
\* waits on an empty event channel can return nil.
C4_PollReturnsAfterReadError ==
    (pc["input"] = "exited" /\ indoneq = "closed"
       /\ pc["app"] = "Poll" /\ evch = << >>)
        => ENABLED PollQuit

\* The methods C5 calls mutating, and GetCell.
MutatingOps == { "SetStyle", "Clear", "SetCell", "PutCell", "ShowCursor",
                 "Show", "Sync" }

\* C5: after Fini and before a new Init, a step of SetStyle, Clear, SetCell,
\* PutCell, ShowCursor, Show or Sync changes neither the grid, the
\* dimensions, the style, the cursor nor the clear flag and writes no
\* output, and GetCell returns nil.
C5_NoOpAfterFini ==
    [][ (life = "finished" /\ pc["app"] # pc'["app"])
          => /\ pc["app"] \in MutatingOps
                  => /\ UNCHANGED << cells, w, h, style, cursorx, cursory,
                                     clear >>
                     /\ pc'["app"] = "idle" => last'.out = << >>
             /\ (pc["app"] = "GetCell" /\ pc'["app"] = "idle")
                  => last'.ret = "nil" ]_vars

\* C6: Fini on a finalized screen is no error: it does not close the quit
\* channel a second time.
C6_SecondFiniNoFault ==
    life = "finished" => fault # "close of closed channel"

\* C7: every write to the grid, the dimensions, the style, the cursor, the
\* finalized flag or the clear flag between Init and the end of Fini is a
\* step of the goroutine that holds the mutex.
C7_WritesUnderMutex ==
    [][ \A t \in Threads :
          (/\ pc'[t] # pc[t]
           /\ life = "running" /\ life' = "running"
           /\ << cells, w, h, style, cursorx, cursory, fini, clear >>'
                # << cells, w, h, style, cursorx, cursory, fini, clear >>)
            => mu = t ]_vars

\* C8: whenever no goroutine holds the mutex, the grid holds the cells of
\* the stored dimensions, so that y*w + x indexes a cell for every (x, y)
\* inside them.
C8_GridHoldsAllCells ==
    (life # "new" /\ mu = "")
        => \A x \in 0 .. w - 1, y \in 0 .. h - 1 : y * w + x + 1 <= Len(cells)

\* The calls that take coordinates.
CellOps == { "SetCell", "PutCell", "GetCell" }

\* C9: a SetCell, PutCell or GetCell at (x, y) with x < 0, y < 0, x >= w or
\* y >= h does not fail and leaves every cell and all other screen state as
\* it was, and GetCell returns nil.
C9_OutOfRangeNoOp ==
    [][ (/\ pc["app"] \in CellOps
         /\ pc'["app"] # pc["app"]
         /\ \/ last'.at[1] < 0 \/ last'.at[2] < 0
            \/ last'.at[1] >= w \/ last'.at[2] >= h)
          => /\ fault' = "none"
             /\ last'.op = pc["app"]
             /\ UNCHANGED << cells, w, h, style, cursorx, cursory, clear,
                             curstyle, cx, cy, fini, evch, evcap, quit,
                             indoneq >>
             /\ pc["app"] = "GetCell" => last'.ret = "nil" ]_vars

\* C9's case: a call at coordinates outside a grid that has cells has
\* returned.
C9_Witness ==
    /\ last.op \in CellOps /\ fault = "none" /\ pc["app"] = "idle"
    /\ ~fini /\ Len(cells) > 0
    /\ last.at[1] >= w \/ last.at[2] >= h
    /\ \E i \in 1 .. Len(cells) : ~cells[i].dirty

\* C10: a Show right after a Show, with no call and no change of the window
\* size in between, draws no cell.
C10_ShowIdempotent ==
    (last.op = "Show" /\ last.again) => Drawn(last.out) = { }

\* C11: Clear on a screen that is not finalized leaves every cell holding a
\* space in the current style and leaves the clear flag set, on the terminfo
\* and on the console backend alike.
C11_ClearSetsFlag ==
    [][ (pc["app"] = "Clear" /\ pc'["app"] = "idle" /\ life = "running")
          => /\ clear'
             /\ \A i \in 1 .. Len(cells') :
                   /\ cells'[i].ch = << RuneSpace >>
                   /\ cells'[i].style = style ]_vars

\* C12: when scanInput has run on a buffer holding exactly the escape of a
\* key of the key table, it has posted one event, the key event of that key,
\* and has left the buffer empty.
C12_FunctionKeyRoundTrip ==
    \A ke \in ti.keys :
        (scanned.done /\ scanned.before = ke[2])
            => /\ Len(scanned.evs) = 1
               /\ scanned.evs[1].type = "key"
               /\ scanned.evs[1].a = ke[1]
               /\ scanned.after = << >>

\* C13: for two keys of the key table with escapes e1 and e2, e1 a strict
\* prefix of e2: a scan with expire false of a buffer that is e1, or a
\* strict prefix of e2 that begins with e1, posts nothing and leaves the
\* buffer as it is, and a scan of a buffer that begins with e2 posts the
\* key of e2 first.
C13_LongestKeyWins ==
    \A k1 \in ti.keys, k2 \in ti.keys :
        LET e1 == k1[2]
            e2 == k2[2]
            b == scanned.before
        IN  (scanned.done /\ Len(e1) < Len(e2) /\ SubSeq(e2, 1, Len(e1)) = e1)
              => /\ (/\ ~scanned.expire
                     /\ Len(b) >= Len(e1) /\ Len(b) < Len(e2)
                     /\ SubSeq(e2, 1, Len(b)) = b)
                      => (scanned.evs = << >> /\ scanned.after = b)
                 /\ (Len(b) >= Len(e2) /\ SubSeq(b, 1, Len(e2)) = e2)
                      => /\ Len(scanned.evs) >= 1
                         /\ scanned.evs[1].type = "key"
                         /\ scanned.evs[1].a = k2[1]

\* The byte sequences of one whole event for the screen as it is: the
\* escapes of its key table, the mouse reports when the terminal has a
\* mouse, and the three bytes of U+4E2D when the charset is UTF-8.
WholeEvents ==
    { ke[2] : ke \in ti.keys }
    \cup (IF ti.mouse THEN { X11Seq, SgrZero, SgrPress, SgrRelease } ELSE { })
    \cup (IF charset = "UTF-8" THEN { Utf8Seq } ELSE { })

\* C14: a scan with expire false of a buffer that holds a strict prefix of
\* one whole event, and nothing else, posts no event and leaves the buffer
\* as it is.
C14_PartialSafety ==
    \A s \in WholeEvents :
        LET p == scanned.before
        IN  (/\ scanned.done /\ ~scanned.expire
             /\ Len(p) >= 1 /\ Len(p) < Len(s) /\ SubSeq(s, 1, Len(p)) = p)
              => (scanned.evs = << >> /\ scanned.after = p)

\* The ways a turn of scanInput's loop ends with a parser completing.
ParserEnds == { "rune", "key", "x11", "sgr" }

C16_DecoderDeterministic ==
    scanned.done =>
      \A o1, o2 \in scanInput(scanned.before, scanned.expire, ti, charset,
                              scanned.w, scanned.h, scanned.wb) :
          o1.evs = o2.evs /\ o1.buf = o2.buf

\* C17: on a terminal with a mouse and a screen of at least one cell, a
\* scan of ESC [ < 0 ; 1 ; 1 M posts one mouse event, button 1 at column 0,
\* row 0 (the wire coordinates count from 1), a scan of the same report
\* ending in m posts one mouse event with no button at column 0, row 0, and
\* either leaves the buffer empty.
C17_SgrPressRelease ==
    (/\ scanned.done /\ ti.mouse /\ scanned.w >= 1 /\ scanned.h >= 1
     /\ scanned.before \in { SgrPress, SgrRelease })
      => /\ scanned.after = << >>
         /\ scanned.evs
              = << [ type |-> "mouse", a |-> 0, b |-> 0,
                     c |-> IF scanned.before = SgrPress
                           THEN Button1 ELSE ButtonNone,
                     d |-> ModNone ] >>

\* C18: every mouse event a scan has posted lies inside the screen as it
\* was when the scan ran: its column is between 0 and w - 1 and its row
\* between 0 and h - 1, also during a resize and after Fini has set the
\* dimensions to zero.
C18_MouseInsideScreen ==
    scanned.done =>
      \A i \in 1 .. Len(scanned.evs) :
          scanned.evs[i].type = "mouse"
            => /\ 0 <= scanned.evs[i].a /\ scanned.evs[i].a <= scanned.w - 1
               /\ 0 <= scanned.evs[i].b /\ scanned.evs[i].b <= scanned.h - 1

\* C19: in every turn of a scan that called the SGR mouse parser, the
\* parser failed, reporting neither partial nor complete, when the buffer
\* began with a byte other than ESC and CSI, with ESC and a byte other than
\* '[', or with ESC [ or CSI and a byte other than '<'.
C19_SgrFailsOnDeviation ==
    scanned.done =>
      \A i \in 1 .. Len(scanned.steps) :
          LET st == scanned.steps[i]
              b == st.buf
              csi == IF b[1] = 155 THEN 1
                     ELSE IF b[1] = 27 /\ Len(b) >= 2 /\ b[2] = 91 THEN 2
                     ELSE 0
          IN  (/\ st.sgr # "skip"
               /\ \/ b[1] \notin { 27, 155 }
                  \/ b[1] = 27 /\ Len(b) >= 2 /\ b[2] # 91
                  \/ csi > 0 /\ Len(b) > csi /\ b[csi + 1] # 60)
                => st.sgr = "fail"

\* C20: on a terminal with a mouse and a screen of at least one cell, a
\* scan of ESC [ < 0 ; - 3 ; 5 M takes the whole report and posts one mouse
\* event, its negative column clipped to 0.
C20_SgrLeadingMinus ==
    (/\ scanned.done /\ ti.mouse /\ scanned.w >= 1 /\ scanned.h >= 1
     /\ scanned.before = SgrNegative)
      => /\ scanned.after = << >>
         /\ Len(scanned.evs) = 1
         /\ scanned.evs[1].type = "mouse"
         /\ scanned.evs[1].a = 0

\* The was-button flag the reports log[1 .. n] leave, told from the
\* reports alone: a press (index 0..2, no wheel bit) sets it, a release
\* (index 3, no wheel bit) clears it, any other report leaves it.
RECURSIVE Held(_, _)
Held(log, n) ==
    IF n = 0 THEN FALSE
    ELSE LET btn == log[n].btn
         IN  IF HasBit(btn, 64) THEN Held(log, n - 1)
             ELSE btn % 4 # 3

\* C21: of the mouse reports handed to postMouseEvent since the start, a
\* report with the wheel bit and index 0 or 1 is dispatched as WheelUp or
\* WheelDown when no press came since the last release or the start, and
\* as Button1 or Button2 otherwise; a release is dispatched as ButtonNone;
\* and wasbtn is set by a press, cleared by a release and left alone by a
\* wheel report.
C21_MouseDebounce ==
    scanned.done =>
      /\ \A n \in 1 .. Len(scanned.mouse) :
            LET c == scanned.mouse[n]
                held == Held(scanned.mouse, n - 1)
            IN  /\ (HasBit(c.btn, 64) /\ c.btn % 4 = 0)
                      => c.button = IF held THEN Button1 ELSE WheelUp
                /\ (HasBit(c.btn, 64) /\ c.btn % 4 = 1)
                      => c.button = IF held THEN Button2 ELSE WheelDown
                /\ (~HasBit(c.btn, 64) /\ c.btn % 4 = 3)
                      => c.button = ButtonNone
      /\ wasbtn = Held(scanned.mouse, Len(scanned.mouse))

C21_Witness ==
    /\ scanned.done
    /\ Len(scanned.mouse) = 3
    /\ scanned.mouse[1].btn = 0 /\ scanned.mouse[1].button = Button1
    /\ scanned.mouse[2].btn = 64 /\ scanned.mouse[2].button = Button1
    /\ scanned.mouse[3].btn = 3 /\ scanned.mouse[3].button = ButtonNone
    /\ ~wasbtn

\* C22: on a terminal with a mouse, a scan of a strict prefix of an X11
\* report ESC [ M b x y has the X11 parser report partial, and a scan of
\* the whole report takes its six bytes and dispatches one mouse event:
\* postMouseEvent is given the button, wheel and modifier bits of b - 32
\* and the coordinates (x - 33, y - 33), the event has the modifiers of
\* b - 32, and a report with the motion bit in b - 32 is no wheel event.
C22_X11Decoding ==
    (scanned.done /\ ~scanned.expire /\ ti.mouse) =>
      \A s \in X11Reports \cup { X11Seq } :
        /\ (/\ scanned.before \in Prefixes(s) \ { s }
             /\ scanned.steps[1].x11 # "skip")
              => /\ scanned.steps[1].x11 = "part"
                 /\ scanned.evs = << >>
                 /\ scanned.after = scanned.before
        /\ scanned.before = s
              => /\ scanned.after = << >>
                 /\ Len(scanned.evs) = 1
                 /\ Len(scanned.mouse) = 1
                 /\ scanned.evs[1].type = "mouse"
                 /\ ClearBit(scanned.mouse[1].btn, 32) = ClearBit(s[4] - 32, 32)
                 /\ scanned.mouse[1].x = s[5] - 33
                 /\ scanned.mouse[1].y = s[6] - 33
                 /\ scanned.evs[1].d = MouseMod(s[4] - 32)
                 /\ HasBit(s[4] - 32, 32)
                       => scanned.evs[1].c \notin { WheelUp, WheelDown }

\* C23: whenever PollEvent delivers an event of a goroutine, the event is
\* one the goroutine posted, and posted after the event of the same
\* goroutine that PollEvent delivered before it: what is delivered of one
\* producer is a subsequence of what it posted, with no event twice and
\* none out of its order.
C23_PerProducerOrder ==
    [][\A p \in Threads :
         order'.ngot[p] # order.ngot[p]
           => /\ order'.got[p] > order.got[p]
              /\ order'.got[p] <= order.n[p]]_vars

\* Both producers have had events delivered, the application some after an
\* event of its own was dropped at the full channel.
C23_Witness ==
    /\ order.on
    /\ order.ngot["input"] >= 2
    /\ order.ngot["app"] >= 2
    /\ order.got["app"] > order.ngot["app"]

\* What the terminal makes of the output of a pass.  The columns a string
\* takes on the terminal, the text written last before out[k], where the
\* terminal's cursor is when the cell of the text out[k] is about to be
\* drawn (<< -1, -1 >>: anywhere), and the gotos written for that cell.
RECURSIVE StrWidth(_)
StrWidth(str) ==
    IF str = << >> THEN 0 ELSE RuneWidth(Head(str)) + StrWidth(Tail(str))

PrevText(out, k) ==
    LET before == { j \in Drawn(out) : j < k }
    IN  IF before = { } THEN 0
        ELSE CHOOSE j \in before : \A i \in before : i <= j

CursorBefore(out, k) ==
    LET j == PrevText(out, k)
    IN  IF j = 0 THEN << -1, -1 >>
        ELSE << out[j].a + StrWidth(out[j].s), out[j].b >>

GotosFor(out, k) ==
    { i \in PrevText(out, k) + 1 .. k - 1 : out[i].op = "goto" }

\* The gotos of a pass written for the cells of columns a .. b of row y.
RunGotos(out, a, b, y) ==
    { i \in 1 .. Len(out) :
        /\ out[i].op = "goto" /\ out[i].b = y /\ out[i].a \in a .. b
        /\ \E j \in Drawn(out) : j > i }

\* The maximal runs of adjacent dirty cells in the rows of the grid cs,
\* tw columns wide: << first column, last column, row >>.
DirtyRuns(cs, tw, th) ==
    { r \in (0 .. tw - 1) \X (0 .. tw - 1) \X (0 .. th - 1) :
        /\ r[1] <= r[2]
        /\ \A x \in r[1] .. r[2] : cs[r[3] * tw + x + 1].dirty
        /\ r[1] = 0 \/ ~cs[r[3] * tw + r[1]].dirty
        /\ r[2] = tw - 1 \/ ~cs[r[3] * tw + r[2] + 2].dirty }

\* A step that is a whole pass of tScreen.Show, and one on a grid that
\* already has the size of the window.
ShowPass ==
    /\ backend = "terminfo" /\ pc["app"] = "Show" /\ pc'["app"] = "idle"
    /\ ~fini /\ fault' = "none"

ShowPassSameSize == ShowPass /\ << w, h >> = winsize

\* C24 as stated: in a pass of Show, every maximal run of adjacent dirty
\* cells in a row gets exactly one goto.
C24_OneGotoPerRun ==
    [][ShowPassSameSize
         => \A r \in DirtyRuns(cells, w, h) :
              Cardinality(RunGotos(last'.out, r[1], r[2], r[3])) = 1]_vars

\* C24: in a pass of Show a goto for a cell is written before the cell is
\* drawn exactly when the terminal's cursor, as the output of the pass has
\* left it, is not at the cell; it is unknown at the start of the pass, so
\* the first cell drawn gets a goto; the cursor tracked after the pass is
\* where the last text or goto left the terminal's; and a maximal run of
\* adjacent dirty cells in a row gets at most one goto, and gets none only
\* when it begins where a wide cell drawn two columns before it ended.
C24_GotoIffMoved ==
    [][ShowPass
         => LET out == last'.out
            IN  /\ \A k \in Drawn(out) :
                      /\ \A i \in GotosFor(out, k) :
                            out[i].a = out[k].a /\ out[i].b = out[k].b
                      /\ Cardinality(GotosFor(out, k))
                           = IF CursorBefore(out, k) # << out[k].a, out[k].b >>
                             THEN 1 ELSE 0
                /\ (Drawn(out) # { } /\ out[Len(out)].op = "hidecursor")
                      => << cx', cy' >> = CursorBefore(out, Len(out))
                /\ << w, h >> = winsize
                      => \A r \in DirtyRuns(cells, w, h) :
                           LET n == Cardinality(RunGotos(out, r[1], r[2],
                                                         r[3]))
                           IN  /\ n <= 1
                               /\ n = 0
                                    => /\ r[1] >= 2
                                       /\ cells[r[3] * w + r[1] - 1].dirty
                                       /\ cells[r[3] * w + r[1] - 1].width
                                            = 2]_vars

\* A pass has drawn a wide rune in the first column and a letter in the
\* third, with one goto between them.
C24_Witness ==
    /\ last.op = "Show" /\ w = 3
    /\ \E i, j \in Drawn(last.out) :
          /\ i < j
          /\ last.out[i].a = 0 /\ last.out[i].s = WideCh
          /\ last.out[j].a = 2 /\ last.out[j].s = NarrowCh
          /\ Cardinality({ g \in 1 .. j : last.out[g].op = "goto" }) = 1

\* The attribute capabilities written for the cell of the text out[k], the
\* effective style of the cell at (x, y) of the grid cs, and the style of
\* the cell drawn last before out[k] (cur0 when it is the first).
AttrOps ==
    { "attroff", "bold", "underline", "reverse", "blink", "dim", "setfg",
      "setbg" }

IsAttr(t) == t.op \in AttrOps

AttrsFor(out, k) == SelectSeq(SubSeq(out, PrevText(out, k) + 1, k - 1), IsAttr)

EffStyle(cs, tw, tstyle, x, y) ==
    LET c == cs[y * tw + x + 1]
    IN  IF c.style = StyleDefault THEN tstyle ELSE c.style

StyleBefore(out, k, cs, tw, tstyle, cur0) ==
    LET j == PrevText(out, k)
    IN  IF j = 0 THEN cur0 ELSE EffStyle(cs, tw, tstyle, out[j].a, out[j].b)

C26_WideAtEdge ==
    [][ShowPass
         => LET out == last'.out
            IN  \A k \in Drawn(out) :
                  LET x == out[k].a
                      y == out[k].b
                      c == cells'[y * w' + x + 1]
                  IN  c.width = 2
                        => IF x = w' - 1
                           THEN /\ out[k].s = << RuneSpace >>
                                /\ ~c.dirty
                                /\ out[Len(out)].op = "hidecursor"
                                      => << cx', cy' >> = << x + 1, y >>
                           ELSE /\ charset = "UTF-8" => out[k].s = c.ch
                                /\ ~c.dirty
                                /\ \A j \in Drawn(out) :
                                      ~(out[j].a = x + 1 /\ out[j].b = y)]_vars

\* The steps in which tScreen.resize runs and returns: the input goroutine
\* on a resize signal, and Show (on a screen not finalized) and Sync.
InputResizes ==
    /\ backend = "terminfo" /\ fault' = "none"
    /\ pc["input"] = "winch" /\ pc'["input"] = "select"

AppResizes ==
    /\ backend = "terminfo" /\ fault' = "none"
    /\ pc["app"] \in { "Show", "Sync" } /\ pc'["app"] = "idle"
    /\ ~(pc["app"] = "Show" /\ fini)

\* C27: tScreen.resize runs with the mutex held.  When the window has a
\* size other than the stored one, then after it the stored size is the
\* window's, the grid has one cell for each position, every cell is dirty
\* (when Show or Sync called it they have drawn every cell since, the first
\* after a goto), the tracked cursor is unknown, and one Resize event with
\* the new size has been offered to the channel, which took it if it had
\* room.  When the window has the stored size nothing changes and the
\* channel is as it was.
C27_ResizeStep ==
    [][(InputResizes \/ AppResizes)
         => /\ mu = (IF InputResizes THEN "input" ELSE "app")
            /\ IF ttyOpen /\ winsize # << w, h >>
               THEN /\ << w', h' >> = winsize
                    /\ Len(cells') = w' * h'
                    /\ evch' = IF Len(evch) < evcap
                               THEN Append(evch, NewEventResize(w', h'))
                               ELSE evch
                    /\ InputResizes
                         => /\ \A i \in 1 .. Len(cells') : cells'[i].dirty
                            /\ cx' = -1 /\ cy' = -1
                    /\ AppResizes
                         => /\ \A x \in 0 .. w' - 1, y \in 0 .. h' - 1 :
                                 \E k \in Drawn(last'.out) :
                                    /\ last'.out[k].a = x
                                    /\ last'.out[k].b = y
                            /\ \A k \in Drawn(last'.out) :
                                 PrevText(last'.out, k) = 0
                                   => GotosFor(last'.out, k) # { }
               ELSE /\ << w', h' >> = << w, h >>
                    /\ Len(cells') = Len(cells)
                    /\ evch' = evch
                    /\ InputResizes
                         => cells' = cells /\ cx' = cx /\ cy' = cy]_vars

\* The input goroutine has resized a grid that had been shown: the stored
\* size is the window's new size, every cell is dirty, the tracked cursor
\* is unknown and the Resize event waits in the channel.
C27_Witness ==
    /\ backend = "terminfo" /\ life = "running" /\ ~fini
    /\ pc["input"] = "select" /\ nwinch = 1 /\ ~sigwinch
    /\ << w, h >> = winsize /\ Len(cells) = w * h
    /\ \A i \in 1 .. Len(cells) : cells[i].dirty
    /\ cx = -1 /\ cy = -1
    /\ Len(evch) = 2
    /\ evch[1].type = "resize"
    /\ evch[2] = NewEventResize(w, h)

\* C28: on the console backend, when the input goroutine has processed a
\* resize record, its PostEvent returned with the screen still running,
\* the stored size is the size of the record and the grid has one cell for
\* each position.
C28_ConsoleResizeRecord ==
    [][(/\ backend = "console" /\ fault' = "none" /\ quit # "closed"
        /\ pc["input"] = "post" /\ pc'["input"] = "read"
        /\ pend["input"].type = "resize")
         => /\ << w', h' >> = << pend["input"].a, pend["input"].b >>
            /\ Len(cells') = w' * h']_vars

\* C30: on the terminfo backend the stored dimensions are zero while the
\* finalized flag is set.
C30_ZeroSizeAfterFini ==
    (backend = "terminfo" /\ fini) => (w = 0 /\ h = 0)

\* The whole pairs of the string of ti.AltChars, by their place, and the
\* VT100 names of the table.
AcsPairAt(p) == << ti.altchars[2 * p - 1], ti.altchars[2 * p] >>
AcsPairCount == Len(ti.altchars) \div 2
AcsNames == { vtNames[i].vt100 : i \in 1 .. Len(vtNames) }

\* C29: on the terminfo screen, for every pair of acs_chars whose VT100
\* name is in the table (a name the string has once), whatever its place,
\* t.acs sends the rune of that name to enter_acs, the pair's character,
\* exit_acs; and a rune whose name is in no pair is sent to its ASCII
\* default.
C29_AcsTable ==
    backend = "terminfo" =>
      \A i \in 1 .. Len(vtNames) :
          LET at == { p \in 1 .. AcsPairCount :
                        AcsPairAt(p)[1] = vtNames[i].vt100 }
          IN  /\ \A p \in at :
                    Cardinality(at) = 1
                      => acs[vtNames[i].utf]
                           = ti.enteracs \o << AcsPairAt(p)[2] >>
                               \o ti.exitacs
              /\ at = { } => acs[vtNames[i].utf] = vtNames[i].ascii

\* A step of the input goroutine that closes t.indoneq, and the steps of
\* inputLoop as they show in the state: a read, a resize, a scan.
ClosesDone == indoneq # "closed" /\ indoneq' = "closed"
InputActs ==
    \/ nread' # nread
    \/ pc'["input"] \in { "select", "read", "winch" }
    \/ inbuf' # inbuf \/ wasbtn' # wasbtn

\* C31, the first half: t.indoneq is closed by the input goroutine only, at
\* its select with quit closed or at a read that failed, and the goroutine
\* has then returned; once it has returned it reads, resizes and scans no
\* more, and what it shares with the application changes only in a step
\* the application takes.
C31_ClosedOnce ==
    [][backend = "terminfo"
         => /\ ClosesDone
                 => /\ \/ pc["input"] = "select" /\ quit = "closed"
                       \/ pc["input"] = "read"
                    /\ pc'["input"] = "exited"
                    /\ evch' = evch /\ nread' = nread
                    /\ << w', h', cells' >> = << w, h, cells >>
            /\ (pc["input"] = "exited" /\ life' # "running" /\ life = life')
                 => /\ indoneq' = "closed"
                    /\ ~InputActs
            /\ (pc["input"] = "exited" /\ pc' = pc)
                 => << evch', w', h', cells', nread' >>
                      = << evch, w, h, cells, nread >>]_vars

\* C31, the second half: when quit is closed and the input goroutine is at
\* its select (the read has returned), it comes to close t.indoneq and
\* return.
C31_ExitsAfterQuit ==
    (backend = "terminfo" /\ quit = "closed" /\ pc["input"] = "select")
      ~> (indoneq = "closed" /\ pc["input"] = "exited")

\* C31: the input goroutine closes the completion signal once, does
\* nothing after it, and does close it once quit is closed and the read
\* has returned.
C31_InputShutdown == C31_ClosedOnce /\ C31_ExitsAfterQuit

=============================================================================
